---------------------------- MODULE Spec2Model ----------------------------
(***************************************************************************)
(* A model of the CATAStrophy core (src/src/catas): counting of CAZyme     *)
(* matches (count.py), the Matrix container (matrix.py), the PCA /         *)
(* centroid / RCD model (model.py) and the match parsers (parsers.py).     *)
(*                                                                         *)
(* Each part of the program has its own specification (SpecCount,          *)
(* SpecMulti, ...) over the shared variables; the variables of the other   *)
(* parts keep their idle value.                                            *)
(***************************************************************************)
EXTENDS Integers, Sequences, FiniteSets, TLC

VARIABLES
    pc,             \* position of the driver: "start" before the call, "done" after
    matches,        \* cazy_counts: the match records handed in
    required_cols,  \* cazy_counts / cazy_counts_multi: the required columns
    count_result,   \* cazy_counts: what the call produced (row or HMMError)
    handles,        \* cazy_counts_multi: one match sequence per sample
    labels,         \* cazy_counts_multi: the sample labels
    multi_result,   \* cazy_counts_multi: what the call produced
    dists,          \* CentroidsModel._rcd: the distance Matrix handed in
    rcd_result,     \* CentroidsModel._rcd: the Matrix it returned
    heap,           \* the live lists and arrays, by address
    model,          \* runner: the loaded Model (addresses of its parts)
    counts,         \* runner: the count Matrix handed to Model.predict
    predictions,    \* runner: what Model.predict returned
    concatenated,   \* runner: what PCAWithLabels.concat returned
    pca_tsv,        \* runner: the table PCAWithLabels.write_tsv wrote
    stored,         \* write/read: the Model or Matrix that is written
    prefix,         \* write/read: the prefix given to write
    npz,            \* write/read: the container np.savez produced (key -> array)
    read_prefix,    \* write/read: the prefix given to read
    loaded,         \* write/read: what read returned
    file,           \* parsers.parse: the input file and its declared format
    parsed,         \* parsers.parse: the outcome of consuming the parse
    query_matches,  \* HMMER._distinct_matches: the sorted matches of one query
    query_winners,  \* HMMER._distinct_matches: the winners it returned
    hmm_id,         \* split_hmm: the profile name handed in
    hmm_name,       \* split_hmm: the name it returned
    operation,      \* Matrix builders: the call made and its arguments
    built,          \* Matrix builders: what the call produced
    inhmms,         \* train runner: the NAME and LENG lines of the HMM file
    trained,        \* train runner: the columns and the Model it fitted
    reread,         \* runner: the Model read back and the columns it counts
    infiles,        \* pipeline: the fasta paths handed to run_hmmscan
    fs,             \* pipeline: the files under the output directory
    worker,         \* pipeline: each parallel_runner call's position and locals
    run,            \* pipeline: which run over the output directory this is
    downloads,      \* download_dbcan: the file at url_fname
    dbcan           \* download_dbcan: the call's position and outcome

countVars == <<matches, required_cols, count_result>>
multiVars == <<handles, labels, multi_result>>
rcdVars == <<dists, rcd_result>>
modelVars == <<heap, model, counts, predictions, concatenated, pca_tsv>>
serialVars == <<stored, prefix, npz, read_prefix, loaded>>
parseVars == <<file, parsed>>
sweepVars == <<query_matches, query_winners>>
splitVars == <<hmm_id, hmm_name>>
matrixVars == <<operation, built>>
trainVars == <<inhmms, trained, reread>>
pipeVars == <<infiles, fs, worker, run>>
dlVars == <<downloads, dbcan>>

vars == <<pc, countVars, multiVars, rcdVars, modelVars, serialVars, parseVars,
         sweepVars, splitVars, matrixVars,
         trainVars, pipeVars, dlVars>>

-----------------------------------------------------------------------------
(* Generic helpers *)

InSeq(x, s) == \E i \in DOMAIN s : s[i] = x

RECURSIVE SeqsUpTo(_, _)
SeqsUpTo(S, n) ==
    IF n = 0 THEN {<<>>}
    ELSE LET shorter == SeqsUpTo(S, n - 1)
         IN  shorter \cup {Append(s, x) : s \in {t \in shorter : Len(t) = n - 1}, x \in S}

SeqsOfLen(S, n) == {s \in SeqsUpTo(S, n) : Len(s) = n}

NoResult == [kind |-> "none"]

\* A local name: Body applied to the value v
With(v, Body(_)) == Body(v)

-----------------------------------------------------------------------------
(* Bounds and input universes of the counting part *)

MaxMatches == 3
MaxCols == 2
MaxSamples == 2

Hmms == {"CBM1", "GH3", "CE10"}
KnownHmms == {"CBM1", "GH3"}
Seqids == {"seq1", "seq2"}
Labels == {"test", "other"}
\* The labels a user can give a sample handed to the runner: any, the label
\* of a training sample included
UserLabels == Labels \cup {"train1"}

\* A parsed match as far as counting reads it: match.hmm and match.seqid.
Match == [hmm : Hmms, seqid : Seqids]

-----------------------------------------------------------------------------
(* count.py: cazy_counts *)

\* these_hmms: a defaultdict(set); keys in insertion order, a missing key
\* reads as the empty set.
EmptyDict == [keys |-> <<>>, sets |-> [h \in Hmms |-> {}]]

\* these_hmms[match.hmm].add(match.seqid)
AddMatch(d, m) ==
    [keys |-> IF InSeq(m.hmm, d.keys) THEN d.keys ELSE Append(d.keys, m.hmm),
     sets |-> [d.sets EXCEPT ![m.hmm] = @ \cup {m.seqid}]]

\* for match in matches: ...
RECURSIVE GroupMatches(_, _)
GroupMatches(d, ms) ==
    IF ms = <<>> THEN d ELSE GroupMatches(AddMatch(d, Head(ms)), Tail(ms))

\* invalid_hmms = [k for k in these_hmms.keys() if k not in required_cols]
InvalidHmms(d, cols) == SelectSeq(d.keys, LAMBDA k : ~InSeq(k, cols))

\* A plausible slip: the set of seqids replaced by a list, so that every hit counts.
cazy_counts_rawhits(ms, cols) ==
    LET d == GroupMatches(EmptyDict, ms)
        invalid_hmms == InvalidHmms(d, cols)
    IN  IF Len(invalid_hmms) > 0
        THEN [kind |-> "HMMError", hmms |-> invalid_hmms]
        ELSE [kind |-> "row",
              row |-> [i \in 1..Len(cols) |->
                         Cardinality({j \in DOMAIN ms : ms[j].hmm = cols[i]})]]

\* A plausible slip: raising at the first unknown family instead of collecting all.
cazy_counts_firstonly(ms, cols) ==
    LET d == GroupMatches(EmptyDict, ms)
        invalid_hmms == InvalidHmms(d, cols)
    IN  IF Len(invalid_hmms) > 0
        THEN [kind |-> "HMMError", hmms |-> <<invalid_hmms[1]>>]
        ELSE [kind |-> "row",
              row |-> [i \in 1..Len(cols) |-> Cardinality(d.sets[cols[i]])]]

cazy_counts(ms, cols) ==
    LET d == GroupMatches(EmptyDict, ms)
        invalid_hmms == InvalidHmms(d, cols)
    IN  IF Len(invalid_hmms) > 0
        THEN [kind |-> "HMMError", hmms |-> invalid_hmms]
        ELSE [kind |-> "row",
              row |-> [i \in 1..Len(cols) |-> Cardinality(d.sets[cols[i]])]]

-----------------------------------------------------------------------------
(* matrix.py: Matrix.__init__, and the numpy arrays it wraps *)

\* A 2-D numpy array: its shape and its cells.
NdArray(nrow, ncol, data) == [nrow |-> nrow, ncol |-> ncol, data |-> data]

\* A plausible slip: the two assertions left out.
MatrixInitUnchecked(rows, columns, arr) ==
    [kind |-> "Matrix", rows |-> rows, columns |-> columns, arr |-> arr]

\* assert len(rows) == arr.shape[0]; assert len(columns) == arr.shape[1]
MatrixInit(rows, columns, arr) ==
    IF Len(rows) # arr.nrow \/ Len(columns) # arr.ncol
    THEN [kind |-> "AssertionError"]
    ELSE [kind |-> "Matrix", rows |-> rows, columns |-> columns, arr |-> arr]

-----------------------------------------------------------------------------
(* count.py: cazy_counts_multi *)

\* The match sequences a sample may hold.
SampleChoices ==
    { <<>>,
      <<[hmm |-> "CBM1", seqid |-> "seq1"]>>,
      <<[hmm |-> "CBM1", seqid |-> "seq1"], [hmm |-> "CBM1", seqid |-> "seq2"]>>,
      <<[hmm |-> "GH3", seqid |-> "seq1"], [hmm |-> "CBM1", seqid |-> "seq1"]>>,
      <<[hmm |-> "CE10", seqid |-> "seq2"]>> }

\* `counts == 0` at line 46: counts is the Python list of rows, and a list
\* compared with an int is the plain bool False (no elementwise comparison).
ListEqualsZero(count_rows) == [type |-> "bool", value |-> FALSE]

\* `.all()`: a method of numpy arrays; a Python bool has no such attribute.
CallAll(v) ==
    IF v.type = "ndarray"
    THEN [raised |-> FALSE, value |-> \A i \in DOMAIN v.value : v.value[i]]
    ELSE [raised |-> TRUE, error |-> "AttributeError"]

\* np.row_stack(counts): needs at least one row.
RowStack(count_rows) ==
    IF count_rows = <<>>
    THEN [kind |-> "ValueError"]
    ELSE [kind |-> "ndarray",
          arr |-> NdArray(Len(count_rows), Len(count_rows[1]),
                          [i \in 1..Len(count_rows) |-> count_rows[i]])]

MinNat(a, b) == IF a < b THEN a ELSE b

cazy_counts_multi(hs, lbls, cols) ==
    LET results == [i \in 1..Len(hs) |-> cazy_counts(hs[i], cols)]
        failed == {i \in 1..Len(hs) : results[i].kind = "HMMError"}
        count_rows == [i \in 1..Len(hs) |-> results[i].row]
        \* zip(labels, counts): as many turns as the shorter of the two
        turns == MinNat(Len(lbls), Len(hs))
        stacked == RowStack(count_rows)
    IN  IF failed # {}
        THEN results[CHOOSE i \in failed : \A j \in failed : i <= j]
        ELSE IF turns > 0 /\ CallAll(ListEqualsZero(count_rows)).raised
        THEN [kind |-> CallAll(ListEqualsZero(count_rows)).error]
        ELSE IF stacked.kind # "ndarray"
        THEN [kind |-> stacked.kind]
        ELSE MatrixInit(lbls, cols, stacked.arr)

-----------------------------------------------------------------------------
(* Floating point.  numpy computes in binary64: every result is the exact   *)
(* result rounded to the nearest representable value, ties to even.  The    *)
(* model keeps the rounding and shrinks the format: FPrec significant bits, *)
(* and values that are multiples of a smallest quantum.  A non-negative     *)
(* value is held as its number of quanta; ratios and RCD values are held in *)
(* quanta of 2^-FracBits, so that 1.0 is One.                               *)

FPrec == 4
FracBits == 5

RECURSIVE Pow2(_)
Pow2(n) == IF n = 0 THEN 1 ELSE 2 * Pow2(n - 1)

One == Pow2(FracBits)

\* The result of 0/0, as numpy yields it; every proper value here is >= 0.
NaN == -1

\* The spacing of the representable values around n >= 0.
RECURSIVE Ulp(_)
Ulp(n) == IF n < Pow2(FPrec) THEN 1 ELSE 2 * Ulp(n \div 2)

Representable(n) == n % Ulp(n) = 0

\* num/den (num >= 0, den > 0) rounded to nearest, ties to even.
RoundRatio(num, den) ==
    LET q == num \div den
        u == Ulp(q)
        lo == (q \div u) * u
        hi == lo + u
    IN  IF 2 * num < (lo + hi) * den THEN lo
        ELSE IF 2 * num > (lo + hi) * den THEN hi
        ELSE IF (lo \div u) % 2 = 0 THEN lo ELSE hi

\* a - b for a >= b >= 0
FSub(a, b) == IF a = NaN \/ b = NaN THEN NaN ELSE RoundRatio(a - b, 1)

\* a / b as a ratio in quanta of 2^-FracBits (0 <= a <= b); 0/0 is NaN
FDiv(a, b) ==
    IF a = NaN \/ b = NaN \/ b = 0 THEN NaN ELSE RoundRatio(a * One, b)

-----------------------------------------------------------------------------
(* model.py: CentroidsModel._rcd *)

MaxRows == 2
MaxClasses == 3

ClassNames == <<"biotroph", "saprotroph", "wilt", "mesotroph", "symbiont">>
RowNames == <<"test", "other", "third", "fourth">>

\* The distances a cell of the first row may hold, and the rows a batch may
\* hold beside its first row.
DistValues == {0, 1, 3, 5, 24}
OtherRows(ncol) ==
    { [j \in 1..ncol |-> IF j = 1 THEN 0 ELSE 24],
      [j \in 1..ncol |-> IF j = 1 THEN 24 ELSE 0],
      [j \in 1..ncol |-> 3] }

RowMin(r) == CHOOSE v \in {r[j] : j \in DOMAIN r} : \A j \in DOMAIN r : v <= r[j]
RowMax(r) == CHOOSE v \in {r[j] : j \in DOMAIN r} : \A j \in DOMAIN r : v >= r[j]

\* The whole-array minimum and maximum
ArrMin(a) == RowMin([k \in 1..(a.nrow * a.ncol) |->
                       a.data[((k - 1) \div a.ncol) + 1][((k - 1) % a.ncol) + 1]])
ArrMax(a) == RowMax([k \in 1..(a.nrow * a.ncol) |->
                       a.data[((k - 1) \div a.ncol) + 1][((k - 1) % a.ncol) + 1]])

\* A plausible slip: min and max taken over the whole array (axis forgotten).
rcd_global(d) ==
    LET min_ == ArrMin(d.arr)
        max_ == ArrMax(d.arr)
        ratio == [i \in 1..d.arr.nrow |-> [j \in 1..d.arr.ncol |->
                    FDiv(FSub(d.arr.data[i][j], min_), FSub(max_, min_))]]
        rcd_ == [i \in 1..d.arr.nrow |-> [j \in 1..d.arr.ncol |->
                    FSub(One, ratio[i][j])]]
    IN  MatrixInit(d.rows, d.columns, NdArray(d.arr.nrow, d.arr.ncol, rcd_))

\* min_ = dists.arr.min(axis=1); max_ = dists.arr.max(axis=1)
\* ratio = (dists.arr - min_) / (max_ - min_); rcd_ = 1 - ratio
rcd(d) ==
    LET min_ == [i \in 1..d.arr.nrow |-> RowMin(d.arr.data[i])]
        max_ == [i \in 1..d.arr.nrow |-> RowMax(d.arr.data[i])]
        ratio == [i \in 1..d.arr.nrow |-> [j \in 1..d.arr.ncol |->
                    FDiv(FSub(d.arr.data[i][j], min_[i]), FSub(max_[i], min_[i]))]]
        rcd_ == [i \in 1..d.arr.nrow |-> [j \in 1..d.arr.ncol |->
                    FSub(One, ratio[i][j])]]
    IN  MatrixInit(d.rows, d.columns, NdArray(d.arr.nrow, d.arr.ncol, rcd_))

-----------------------------------------------------------------------------
(* The object heap.  Python lists and numpy arrays are mutable objects held *)
(* by reference: a Matrix, a PCAWithLabels and a Model hold the addresses   *)
(* of their lists and arrays.  heap[a] is the content of the object at a.   *)

\* The reference None (addresses start at 1).
NoneRef == 0

\* A new object with content v
Alloc(h, v) == [heap |-> Append(h, v), ref |-> Len(h) + 1]

\* list(x): a new list with the items of the list at r
CopyList(h, r) == Alloc(h, h[r])

\* x.extend(items), in place
Extend(h, r, items) == [h EXCEPT ![r] = @ \o items]

\* Matrix.__init__: the two assertions, then self.rows = list(rows),
\* self.columns = list(columns), self.arr = arr (the array itself, not a copy)
MatrixNew(h, rowsRef, colsRef, arrRef) ==
    IF Len(h[rowsRef]) # h[arrRef].nrow \/ Len(h[colsRef]) # h[arrRef].ncol
    THEN [heap |-> h, obj |-> [kind |-> "AssertionError"]]
    ELSE LET r == CopyList(h, rowsRef)
             c == CopyList(r.heap, colsRef)
         IN  [heap |-> c.heap,
              obj |-> [kind |-> "Matrix", rows |-> r.ref, columns |-> c.ref,
                       arr |-> arrRef]]

\* The Matrix at m, read through the heap
MatVal(h, m) ==
    [kind |-> "Matrix", rows |-> h[m.rows], columns |-> h[m.columns], arr |-> h[m.arr]]

\* A Matrix built from literal rows, columns and cells
PutMatrix(h, mv) ==
    LET r == Alloc(h, mv.rows)
        c == Alloc(r.heap, mv.columns)
        a == Alloc(c.heap, mv.arr)
    IN  [heap |-> a.heap,
         obj |-> [kind |-> "Matrix", rows |-> r.ref, columns |-> c.ref, arr |-> a.ref]]

-----------------------------------------------------------------------------
(* model.py: PCAModel.transform *)

RECURSIVE SumOver(_, _)
\* f[1] + ... + f[n]
SumOver(f, n) == IF n = 0 THEN 0 ELSE f[n] + SumOver(f, n - 1)

\* A plausible slip: the means are not subtracted.
SubtractNothing(values, means) == [kind |-> "ndarray", arr |-> values]

\* X = values - self.means: an (N, C) array and an (F,) vector broadcast when
\* C = F, C = 1 or F = 1, and numpy raises ValueError otherwise.
SubtractMeans(values, means) ==
    LET F == Len(means)
        C == values.ncol
        N == values.nrow
    IN  IF C = F
        THEN [kind |-> "ndarray",
              arr |-> NdArray(N, F, [i \in 1..N |-> [j \in 1..F |->
                          values.data[i][j] - means[j]]])]
        ELSE IF C = 1
        THEN [kind |-> "ndarray",
              arr |-> NdArray(N, F, [i \in 1..N |-> [j \in 1..F |->
                          values.data[i][1] - means[j]]])]
        ELSE IF F = 1
        THEN [kind |-> "ndarray",
              arr |-> NdArray(N, C, [i \in 1..N |-> [j \in 1..C |->
                          values.data[i][j] - means[1]]])]
        ELSE [kind |-> "ValueError"]

\* np.dot(X, self.components.T): the inner dimensions must agree.
DotTransposed(X, components) ==
    IF X.ncol # components.ncol
    THEN [kind |-> "ValueError"]
    ELSE [kind |-> "ndarray",
          arr |-> NdArray(X.nrow, components.nrow,
                    [i \in 1..X.nrow |-> [k \in 1..components.nrow |->
                        SumOver([j \in 1..X.ncol |->
                                    X.data[i][j] * components.data[k][j]], X.ncol)]])]

\* "pc{:0>2}".format(i + 1)
PcNames == <<"pc01", "pc02", "pc03", "pc04", "pc05", "pc06", "pc07", "pc08",
             "pc09", "pc10", "pc11", "pc12">>

transform(h, pca_model, cnt) ==
    With(SubtractMeans(h[cnt.arr], h[pca_model.means]), LAMBDA X :
    IF X.kind # "ndarray" THEN [heap |-> h, obj |-> [kind |-> X.kind]]
    ELSE
    With(DotTransposed(X.arr, h[pca_model.components]), LAMBDA X_transformed :
    IF X_transformed.kind # "ndarray"
    THEN [heap |-> h, obj |-> [kind |-> X_transformed.kind]]
    ELSE
    With(Alloc(h, X_transformed.arr), LAMBDA a :
    With(Alloc(a.heap, SubSeq(PcNames, 1, X_transformed.arr.ncol)), LAMBDA columns :
    MatrixNew(columns.heap, cnt.rows, columns.ref, a.ref)))))

-----------------------------------------------------------------------------
(* model.py: CentroidsModel.distances, CentroidsModel.rcd *)

\* The integer square root
ISqrt(n) == CHOOSE r \in 0..n : r * r <= n /\ (r + 1) * (r + 1) > n

\* sqrt(n) rounded to nearest: numpy.linalg.norm of a difference whose sum
\* of squares is n
FSqrt(n) ==
    LET r == ISqrt(n)
        u == Ulp(r)
        lo == (r \div u) * u
        hi == lo + u
    IN  IF 4 * n < (lo + hi) * (lo + hi) THEN lo
        ELSE IF 4 * n > (lo + hi) * (lo + hi) THEN hi
        ELSE IF (lo \div u) % 2 = 0 THEN lo ELSE hi

\* diffs = x - self.arr for each point x; normed = norm over the PCs
distances(h, centroids, points) ==
    With(h[centroids.arr], LAMBDA cen :
    With(h[points.arr], LAMBDA pts :
    With([i \in 1..pts.nrow |-> [c \in 1..cen.nrow |->
            FSqrt(SumOver([k \in 1..cen.ncol |->
                      (pts.data[i][k] - cen.data[c][k])
                          * (pts.data[i][k] - cen.data[c][k])], cen.ncol))]],
         LAMBDA normed :
    With(Alloc(h, NdArray(pts.nrow, cen.nrow, normed)), LAMBDA a :
    \* new_columns = self.rows
    MatrixNew(a.heap, points.rows, centroids.rows, a.ref)))))

\* _rcd on the heap: the new array, then Matrix(rows=dists.rows, ...)
rcd_matrix(h, d) ==
    With(Alloc(h, rcd(MatVal(h, d)).arr), LAMBDA a :
    MatrixNew(a.heap, d.rows, d.columns, a.ref))

\* CentroidsModel.rcd(points)
centroids_rcd(h, centroids, points) ==
    With(distances(h, centroids, points), LAMBDA d :
    rcd_matrix(d.heap, d.obj))

-----------------------------------------------------------------------------
\* The widths of the fixed-width unicode dtypes 'U60' and '<U100'
U60 == 60
U100 == 100

\* A Python str stored in an array of dtype 'U<width>' and read back: numpy
\* keeps the first width characters.
FixedWidth(str, width) == IF Len(str) <= width THEN str ELSE SubSeq(str, 1, width)

\* A dict is the sequence of its (key, value) items in insertion order.
DictKeys(d) == [i \in DOMAIN d |-> d[i][1]]
HasKey(d, k) == \E i \in DOMAIN d : d[i][1] = k
DictGet(d, k) == d[CHOOSE i \in DOMAIN d : d[i][1] = k][2]
\* d[k] = v
DictSet(d, k, v) ==
    IF HasKey(d, k) THEN [i \in DOMAIN d |-> IF d[i][1] = k THEN <<k, v>> ELSE d[i]]
    ELSE Append(d, <<k, v>>)
RECURSIVE DictUpdate(_, _)
\* d.update(other)
DictUpdate(d, other) ==
    IF other = <<>> THEN d
    ELSE DictUpdate(DictSet(d, Head(other)[1], Head(other)[2]), Tail(other))

(* model.py: RCDResult.from_matrix, Model.predict, PCAWithLabels.concat *)

\* A plausible slip: the cells read column by column (product(columns, rows)
\* against a row-major flatten).
from_matrix_colmajor(m, nomenclature) ==
    [k \in 1..(m.arr.nrow * m.arr.ncol) |->
        [label |-> m.rows[((k - 1) % m.arr.nrow) + 1],
         nomenclature |-> nomenclature,
         nomenclature_class |-> m.columns[((k - 1) \div m.arr.nrow) + 1],
         value |-> m.arr.data[((k - 1) \div m.arr.ncol) + 1][((k - 1) % m.arr.ncol) + 1]]]

\* zip(product(m.rows, m.columns), repeat(nomenclature), m.arr.flatten())
from_matrix(m, nomenclature) ==
    [k \in 1..(m.arr.nrow * m.arr.ncol) |->
        [label |-> m.rows[((k - 1) \div m.arr.ncol) + 1],
         nomenclature |-> nomenclature,
         nomenclature_class |-> m.columns[((k - 1) % m.arr.ncol) + 1],
         value |-> m.arr.data[((k - 1) \div m.arr.ncol) + 1][((k - 1) % m.arr.ncol) + 1]]]

predict(h, mdl, cnt) ==
    With(transform(h, mdl.pca_model, cnt), LAMBDA pca_transformed :
    IF pca_transformed.obj.kind # "Matrix" THEN pca_transformed
    ELSE
    With(centroids_rcd(pca_transformed.heap, mdl.n1_centroids, pca_transformed.obj),
         LAMBDA n1_rcd :
    With(centroids_rcd(n1_rcd.heap, mdl.n2_centroids, pca_transformed.obj),
         LAMBDA n2_rcd :
    With(centroids_rcd(n2_rcd.heap, mdl.n3_centroids, pca_transformed.obj),
         LAMBDA n3_rcd :
    With(Alloc(n3_rcd.heap, from_matrix(MatVal(n3_rcd.heap, n1_rcd.obj), "nomenclature1")),
         LAMBDA rcd_list :
    With(Extend(rcd_list.heap, rcd_list.ref,
                from_matrix(MatVal(n3_rcd.heap, n2_rcd.obj), "nomenclature2")),
         LAMBDA h4 :
    With(Extend(h4, rcd_list.ref,
                from_matrix(MatVal(n3_rcd.heap, n3_rcd.obj), "nomenclature3")),
         LAMBDA h5 :
    [heap |-> h5,
     obj |-> [kind |-> "PCAWithLabels", pca |-> pca_transformed.obj,
              rcd |-> rcd_list.ref, classes |-> NoneRef]])))))))

RECURSIVE ConcatSeqs(_)
ConcatSeqs(ss) == IF ss = <<>> THEN <<>> ELSE Head(ss) \o ConcatSeqs(Tail(ss))

\* Matrix.concat(dfs); for an empty list cls([], [], np.zeros((0, 0)))
matrix_concat(h, dfs) ==
    IF dfs = <<>> THEN PutMatrix(h, MatrixInit(<<>>, <<>>, NdArray(0, 0, <<>>)))
    ELSE IF \E i \in DOMAIN dfs : h[dfs[i].columns] # h[dfs[1].columns]
    THEN [heap |-> h, obj |-> [kind |-> "AssertionError"]]
    ELSE LET rows == Alloc(h, ConcatSeqs([i \in DOMAIN dfs |-> h[dfs[i].rows]]))
             \* np.concatenate([df.arr for df in dfs])
             arr == Alloc(rows.heap,
                        NdArray(SumOver([i \in DOMAIN dfs |-> h[dfs[i].arr].nrow], Len(dfs)),
                                h[dfs[1].arr].ncol,
                                ConcatSeqs([i \in DOMAIN dfs |-> h[dfs[i].arr].data])))
         IN  MatrixNew(arr.heap, rows.ref, dfs[1].columns, arr.ref)

\* A plausible slip: the result's rcd list is the first operand's own list.
concat_rcd_alias(h, pwls) == [heap |-> h, ref |-> pwls[1].rcd]

\* rcd: List[RCDResult] = []
concat_rcd_init(h, pwls) == Alloc(h, <<>>)

\* for p in pwls: rcd.extend(p.rcd)
RECURSIVE ExtendAll(_, _, _)
ExtendAll(h, r, refs) ==
    IF refs = <<>> THEN h
    ELSE ExtendAll(Extend(h, r, h[Head(refs)]), r, Tail(refs))

\* PCAWithLabels.concat(pwls)
concat(h, pwls) ==
    With(matrix_concat(h, [i \in DOMAIN pwls |-> pwls[i].pca]), LAMBDA pca :
    IF pca.obj.kind # "Matrix" THEN pca
    ELSE
    With(concat_rcd_init(pca.heap, pwls), LAMBDA rcd_list :
    With(ExtendAll(rcd_list.heap, rcd_list.ref, [i \in DOMAIN pwls |-> pwls[i].rcd]),
         LAMBDA h1 :
    With(SelectSeq(pwls, LAMBDA p : p.classes # NoneRef), LAMBDA with_classes :
    \* classes stays None unless some operand has classes
    With(IF with_classes = <<>> THEN [heap |-> h1, ref |-> NoneRef] ELSE Alloc(h1, <<>>),
         LAMBDA classes :
    With(IF with_classes = <<>> THEN h1
         ELSE ExtendAll(classes.heap, classes.ref,
                        [i \in DOMAIN with_classes |-> with_classes[i].classes]),
         LAMBDA h2 :
    [heap |-> h2,
     obj |-> [kind |-> "PCAWithLabels", pca |-> pca.obj,
              rcd |-> rcd_list.ref, classes |-> classes.ref]]))))))

-----------------------------------------------------------------------------
(* The Models and count Matrices of the runner *)

\* hmm_lengths: (name, length) pairs sorted by name
HmmLengthsItems == <<<<"CBM1", 10>>, <<"GH3", 20>>>>

\* The order of the family names as Python sorts strings
HmmRank == [h \in Hmms |-> CASE h = "CBM1" -> 1 [] h = "CE10" -> 2 [] h = "GH3" -> 3]

MeansChoices == {<<0, 0>>, <<1, 2>>}
ComponentsArr == NdArray(2, 2, <<<<1, 1>>, <<1, -1>>>>)

N1Centroids ==
    [rows |-> <<"biotroph", "necrotroph">>, columns |-> SubSeq(PcNames, 1, 2),
     arr |-> NdArray(2, 2, <<<<0, 0>>, <<3, 4>>>>)]
N2Centroids ==
    [rows |-> <<"biotroph", "mesotroph", "saprotroph">>, columns |-> SubSeq(PcNames, 1, 2),
     arr |-> NdArray(3, 2, <<<<0, 1>>, <<2, 0>>, <<4, 4>>>>)]
N3Centroids ==
    [rows |-> <<"saprotroph", "wilt">>, columns |-> SubSeq(PcNames, 1, 2),
     arr |-> NdArray(2, 2, <<<<1, 1>>, <<-2, 0>>>>)]

TrainingPca ==
    [rows |-> <<"train1">>, columns |-> SubSeq(PcNames, 1, 2),
     arr |-> NdArray(1, 2, <<<<3, 4>>>>)]
TrainingRcd ==
    from_matrix([rows |-> <<"train1">>, columns |-> N1Centroids.rows,
                 arr |-> NdArray(1, 2, <<<<0, One>>>>)], "nomenclature1")
    \o from_matrix([rows |-> <<"train1">>, columns |-> N2Centroids.rows,
                    arr |-> NdArray(1, 3, <<<<0, 8, One>>>>)], "nomenclature2")
    \o from_matrix([rows |-> <<"train1">>, columns |-> N3Centroids.rows,
                    arr |-> NdArray(1, 2, <<<<One, 0>>>>)], "nomenclature3")
TrainingClasses ==
    <<[label |-> "train1", genome |-> "genomeA", nomenclature1 |-> "necrotroph",
       nomenclature2 |-> "saprotroph", nomenclature3 |-> "saprotroph"]>>

\* Model.from_dict_of_arrays: the objects of a loaded Model, in a heap of their own
LoadModel(means, with_classes) ==
    LET hl == Alloc(<<>>, HmmLengthsItems)
        mn == Alloc(hl.heap, means)
        cp == Alloc(mn.heap, ComponentsArr)
        n1 == PutMatrix(cp.heap, N1Centroids)
        n2 == PutMatrix(n1.heap, N2Centroids)
        n3 == PutMatrix(n2.heap, N3Centroids)
        tr == Alloc(n3.heap, TrainingRcd)
        tp == PutMatrix(tr.heap, TrainingPca)
        tc == IF with_classes THEN Alloc(tp.heap, TrainingClasses)
              ELSE [heap |-> tp.heap, ref |-> NoneRef]
    IN  [heap |-> tc.heap,
         obj |-> [kind |-> "Model",
                  n1_centroids |-> n1.obj, n2_centroids |-> n2.obj,
                  n3_centroids |-> n3.obj,
                  pca_model |-> [means |-> mn.ref, components |-> cp.ref],
                  hmm_lengths |-> hl.ref,
                  training_data |-> [kind |-> "PCAWithLabels", pca |-> tp.obj,
                                     rcd |-> tr.ref, classes |-> tc.ref]]]

\* The addresses a Model holds
MatrixRefs(m) == {m.rows, m.columns, m.arr}
ModelRefs(mdl) ==
    MatrixRefs(mdl.n1_centroids) \cup MatrixRefs(mdl.n2_centroids)
    \cup MatrixRefs(mdl.n3_centroids) \cup MatrixRefs(mdl.training_data.pca)
    \cup {mdl.pca_model.means, mdl.pca_model.components, mdl.hmm_lengths,
          mdl.training_data.rcd}
    \cup ({mdl.training_data.classes} \ {NoneRef})

\* The count Matrices handed to predict: the Model's columns, the same in
\* another order, a single column, one column too many, a foreign column.
CountsColumnChoices ==
    { <<"CBM1", "GH3">>, <<"GH3", "CBM1">>, <<"CBM1">>,
      <<"CBM1", "GH3", "CE10">>, <<"CBM1", "CE10">> }
CountValues == {0, 2}

CountsChoices ==
    UNION { { [rows |-> lbls, columns |-> cols,
               arr |-> NdArray(Len(lbls), Len(cols), data)] :
                 lbls \in SeqsOfLen(UserLabels, n),
                 data \in [1..n -> [1..Len(cols) -> CountValues]] } :
            n \in 1..MaxRows, cols \in CountsColumnChoices }

-----------------------------------------------------------------------------
(* Idle values of each part's variables *)

CountIdle == matches = <<>> /\ count_result = NoResult
MultiIdle == handles = <<>> /\ labels = <<>> /\ multi_result = NoResult
RcdIdle == dists = NoResult /\ rcd_result = NoResult
ModelIdle ==
    /\ heap = <<>> /\ model = NoResult /\ counts = NoResult
    /\ predictions = NoResult /\ concatenated = NoResult /\ pca_tsv = NoResult
SerialIdle ==
    /\ stored = NoResult /\ npz = NoResult /\ loaded = NoResult
    /\ prefix = "" /\ read_prefix = ""
ParseIdle == file = NoResult /\ parsed = NoResult
SweepIdle == query_matches = NoResult /\ query_winners = NoResult
SplitIdle == hmm_id = NoResult /\ hmm_name = NoResult
MatrixIdle == operation = NoResult /\ built = NoResult
TrainIdle == inhmms = NoResult /\ trained = NoResult /\ reread = NoResult
PipeIdle == infiles = NoResult /\ fs = NoResult /\ worker = NoResult /\ run = 0
DlIdle == downloads = NoResult /\ dbcan = NoResult

-----------------------------------------------------------------------------
(* SpecCount: one call of cazy_counts on every bounded input *)

InitCount ==
    /\ pc = "start"
    /\ matches \in SeqsUpTo(Match, MaxMatches)
    /\ required_cols \in SeqsUpTo(KnownHmms, MaxCols)
    /\ count_result = NoResult
    /\ MultiIdle /\ RcdIdle /\ ModelIdle /\ SerialIdle /\ ParseIdle /\ SweepIdle /\ SplitIdle /\ MatrixIdle
    /\ TrainIdle /\ PipeIdle /\ DlIdle

CazyCounts ==
    /\ pc = "start"
    /\ count_result' = cazy_counts(matches, required_cols)
    /\ pc' = "done"
    /\ UNCHANGED <<matches, required_cols, multiVars, rcdVars, modelVars, serialVars, parseVars, sweepVars, splitVars, matrixVars, trainVars, pipeVars, dlVars>>

NextCount == CazyCounts

SpecCount == InitCount /\ [][NextCount]_vars

-----------------------------------------------------------------------------
(* SpecMulti: one call of cazy_counts_multi on every bounded input *)

InitMulti ==
    /\ pc = "start"
    /\ handles \in SeqsUpTo(SampleChoices, MaxSamples)
    /\ labels \in SeqsUpTo(Labels, MaxSamples)
    /\ required_cols \in SeqsUpTo(KnownHmms, MaxCols)
    /\ multi_result = NoResult
    /\ CountIdle /\ RcdIdle /\ ModelIdle /\ SerialIdle /\ ParseIdle /\ SweepIdle /\ SplitIdle /\ MatrixIdle
    /\ TrainIdle /\ PipeIdle /\ DlIdle

CazyCountsMulti ==
    /\ pc = "start"
    /\ multi_result' = cazy_counts_multi(handles, labels, required_cols)
    /\ pc' = "done"
    /\ UNCHANGED <<countVars, handles, labels, rcdVars, modelVars, serialVars, parseVars, sweepVars, splitVars, matrixVars, trainVars, pipeVars, dlVars>>

NextMulti == CazyCountsMulti

SpecMulti == InitMulti /\ [][NextMulti]_vars

-----------------------------------------------------------------------------
(* SpecRcd: one call of CentroidsModel._rcd on every bounded distance Matrix *)

\* The batches of ncol classes: a first row over DistValues, then further rows.
DistBatches(ncol) ==
    { <<first>> \o rest :
        first \in [1..ncol -> DistValues],
        rest \in SeqsUpTo(OtherRows(ncol), MaxRows - 1) }

DistMatrices ==
    UNION { { MatrixInit(SubSeq(RowNames, 1, Len(rs)), SubSeq(ClassNames, 1, ncol),
                         NdArray(Len(rs), ncol, rs)) : rs \in DistBatches(ncol) } :
            ncol \in 1..MaxClasses }

InitRcd ==
    /\ pc = "start"
    /\ dists \in DistMatrices
    /\ rcd_result = NoResult
    /\ required_cols = <<>>
    /\ CountIdle /\ MultiIdle /\ ModelIdle /\ SerialIdle /\ ParseIdle /\ SweepIdle /\ SplitIdle /\ MatrixIdle
    /\ TrainIdle /\ PipeIdle /\ DlIdle

Rcd ==
    /\ pc = "start"
    /\ rcd_result' = rcd(dists)
    /\ pc' = "done"
    /\ UNCHANGED <<countVars, multiVars, dists, modelVars, serialVars, parseVars, sweepVars, splitVars, matrixVars, trainVars, pipeVars, dlVars>>

NextRcd == Rcd

SpecRcd == InitRcd /\ [][NextRcd]_vars

-----------------------------------------------------------------------------
(* SpecModel: the runner's use of a loaded Model, call after call: a count  *)
(* Matrix is built, Model.predict is called on it, the predictions are      *)
(* concatenated to the training data, and the runner returns.               *)

InitModel ==
    /\ pc = "idle"
    /\ \E means \in MeansChoices, with_classes \in BOOLEAN :
          \E r \in {LoadModel(means, with_classes)} : heap = r.heap /\ model = r.obj
    /\ counts = NoResult
    /\ predictions = NoResult
    /\ concatenated = NoResult
    /\ pca_tsv = NoResult
    /\ required_cols = <<>>
    /\ CountIdle /\ MultiIdle /\ RcdIdle /\ SerialIdle /\ ParseIdle /\ SweepIdle /\ SplitIdle /\ MatrixIdle
    /\ TrainIdle /\ PipeIdle /\ DlIdle

\* counts = Matrix(rows=..., columns=..., arr=...)
BuildCounts ==
    /\ pc = "idle"
    /\ \E mv \in CountsChoices : \E r \in {PutMatrix(heap, mv)} :
          heap' = r.heap /\ counts' = r.obj
    /\ pc' = "counted"
    /\ UNCHANGED <<model, predictions, concatenated, pca_tsv, countVars, multiVars, rcdVars, serialVars, parseVars, sweepVars, splitVars, matrixVars, trainVars, pipeVars, dlVars>>

\* predictions = model.predict(counts)
Predict ==
    /\ pc = "counted"
    /\ \E r \in {predict(heap, model, counts)} :
          heap' = r.heap /\ predictions' = r.obj
    /\ pc' = IF predictions'.kind = "PCAWithLabels" THEN "predicted" ELSE "failed"
    /\ UNCHANGED <<model, counts, concatenated, pca_tsv, countVars, multiVars, rcdVars, serialVars, parseVars, sweepVars, splitVars, matrixVars, trainVars, pipeVars, dlVars>>

\* The width of the ancillary columns of the PCA table ('<U300')
U300 == 300

\* rcd.value >= threshold for threshold = 0.8; a comparison with NaN is false
AtLeastThreshold(value) == value # NaN /\ 10 * value >= 8 * One

RECURSIVE BestRcds(_, _)
\* write_tsv: best_rcds, keyed by (rcd.nomenclature, rcd.label)
BestRcds(d, rcds) ==
    IF rcds = <<>> THEN d
    ELSE BestRcds(
            IF ~HasKey(d, <<Head(rcds).nomenclature, Head(rcds).label>>)
            THEN DictSet(d, <<Head(rcds).nomenclature, Head(rcds).label>>, Head(rcds))
            ELSE IF /\ Head(rcds).value # NaN
                    /\ DictGet(d, <<Head(rcds).nomenclature, Head(rcds).label>>).value # NaN
                    /\ Head(rcds).value
                         > DictGet(d, <<Head(rcds).nomenclature, Head(rcds).label>>).value
            THEN DictSet(d, <<Head(rcds).nomenclature, Head(rcds).label>>, Head(rcds))
            ELSE d,
            Tail(rcds))

RECURSIVE SigRcds(_, _)
\* write_tsv: sig_rcds, keyed by (rcd.nomenclature, rcd.label)
SigRcds(d, rcds) ==
    IF rcds = <<>> THEN d
    ELSE SigRcds(
            IF ~AtLeastThreshold(Head(rcds).value) THEN d
            ELSE IF ~HasKey(d, <<Head(rcds).nomenclature, Head(rcds).label>>)
            THEN DictSet(d, <<Head(rcds).nomenclature, Head(rcds).label>>,
                         <<Head(rcds).nomenclature_class>>)
            ELSE DictSet(d, <<Head(rcds).nomenclature, Head(rcds).label>>,
                         Append(DictGet(d, <<Head(rcds).nomenclature, Head(rcds).label>>),
                                Head(rcds).nomenclature_class)),
            Tail(rcds))

RECURSIVE Join(_, _)
\* sep.join(strs)
Join(sep, strs) ==
    IF strs = <<>> THEN ""
    ELSE IF Len(strs) = 1 THEN strs[1]
    ELSE strs[1] \o sep \o Join(sep, Tail(strs))

NomenclatureNames == <<"nomenclature1", "nomenclature2", "nomenclature3">>

\* The lookups one row of the table makes, in the order it makes them
RowKeys(label) ==
    [n \in 1..3 |-> <<NomenclatureNames[n], label>>]

\* PCAWithLabels.write_tsv, threshold 0.8: the rows handed to np.savetxt (the
\* label, the predicted class and the ancillary classes per nomenclature,
\* stored with '<U100' and '<U300'; pcs are the row's coordinates), or the
\* KeyError of the first lookup that fails
write_tsv(h, pwl) ==
    IF pwl.kind # "PCAWithLabels" THEN NoResult
    ELSE
    With(BestRcds(<<>>, h[pwl.rcd]), LAMBDA best_rcds :
    With(SigRcds(<<>>, h[pwl.rcd]), LAMBDA sig_rcds :
    IF \E i \in DOMAIN h[pwl.pca.rows] : \E n \in 1..3 :
          \/ ~HasKey(best_rcds, RowKeys(h[pwl.pca.rows][i])[n])
          \/ ~HasKey(sig_rcds, RowKeys(h[pwl.pca.rows][i])[n])
    THEN [kind |-> "KeyError"]
    ELSE [kind |-> "table",
          rows |-> [i \in DOMAIN h[pwl.pca.rows] |->
             [label |-> FixedWidth(h[pwl.pca.rows][i], U100),
              pred |-> [n \in 1..3 |->
                  FixedWidth(DictGet(best_rcds, RowKeys(h[pwl.pca.rows][i])[n])
                                 .nomenclature_class, U100)],
              ancillary |-> [n \in 1..3 |->
                  FixedWidth(Join(",", DictGet(sig_rcds, RowKeys(h[pwl.pca.rows][i])[n])),
                             U300)],
              pcs |-> h[pwl.pca.arr].data[i]]]]))

\* PCAWithLabels.concat([model.training_data, predictions])
\*     .write_tsv(pca_handle)
Concat ==
    /\ pc = "predicted"
    /\ \E r \in {concat(heap, <<model.training_data, predictions>>)} :
          /\ heap' = r.heap /\ concatenated' = r.obj
          /\ pca_tsv' = write_tsv(r.heap, r.obj)
    /\ pc' = "concatenated"
    /\ UNCHANGED <<model, counts, predictions, countVars, multiVars, rcdVars, serialVars, parseVars, sweepVars, splitVars, matrixVars, trainVars, pipeVars, dlVars>>

MaxRef(S) == CHOOSE a \in S : \A b \in S : a >= b

\* The runner returns (or the exception leaves it): only the Model stays
\* referenced, the objects of the call are gone.
Return ==
    /\ pc \in {"predicted", "failed", "concatenated"}
    /\ heap' = SubSeq(heap, 1, MaxRef(ModelRefs(model)))
    /\ counts' = NoResult
    /\ predictions' = NoResult
    /\ concatenated' = NoResult
    /\ pca_tsv' = NoResult
    /\ pc' = "idle"
    /\ UNCHANGED <<model, countVars, multiVars, rcdVars, serialVars, parseVars, sweepVars, splitVars, matrixVars, trainVars, pipeVars, dlVars>>

NextModel == BuildCounts \/ Predict \/ Concat \/ Return

SpecModel == InitModel /\ [][NextModel]_vars

-----------------------------------------------------------------------------
(* Claims about counting *)

\* Every family observed in `matches` is a required column.
AllObservedKnown(ms, cols) == \A j \in DOMAIN ms : InSeq(ms[j].hmm, cols)

\* The distinct sequence ids matched to family h.
DistinctSeqids(ms, h) ==
    {s \in Seqids : \E j \in DOMAIN ms : ms[j].hmm = h /\ ms[j].seqid = s}

\* C1: when every observed family is a required column, cazy_counts returns a
\* vector as long as required_cols whose i-th entry is the number of distinct
\* seqids matched to required_cols[i] (0 when there is no match).
C1_CountsDistinctSeqids ==
    (pc = "done" /\ AllObservedKnown(matches, required_cols)) =>
        /\ count_result.kind = "row"
        /\ DOMAIN count_result.row = 1..Len(required_cols)
        /\ \A i \in 1..Len(required_cols) :
              count_result.row[i] =
                  Cardinality(DistinctSeqids(matches, required_cols[i]))

\* C1 witness: a family hit twice on the same seqid is counted once, beside a
\* required column without any match.
C1_Witness ==
    /\ pc = "done"
    /\ AllObservedKnown(matches, required_cols)
    /\ count_result.kind = "row"
    /\ \E i, j \in DOMAIN matches, k \in DOMAIN required_cols :
          /\ i < j /\ matches[i] = matches[j]
          /\ required_cols[k] = matches[i].hmm
          /\ count_result.row[k] = 1
    /\ \E k \in DOMAIN required_cols : count_result.row[k] = 0

\* The families of `matches` that are not required columns.
Offending(ms, cols) == {ms[j].hmm : j \in {i \in DOMAIN ms : ~InSeq(ms[i].hmm, cols)}}

\* C2: cazy_counts raises HMMError exactly when some match has an unknown
\* family; the error then lists every offending family exactly once and
\* nothing else, and no count vector is produced.
C2_HMMErrorListsAll ==
    pc = "done" =>
        /\ count_result.kind \in {"row", "HMMError"}
        /\ (count_result.kind = "HMMError")
              <=> (Offending(matches, required_cols) # {})
        /\ count_result.kind = "HMMError" =>
              /\ \A h \in Hmms :
                    Cardinality({i \in DOMAIN count_result.hmms :
                                    count_result.hmms[i] = h})
                      = IF h \in Offending(matches, required_cols) THEN 1 ELSE 0
              /\ "row" \notin DOMAIN count_result

\* C2 witness: two unknown families beside a known one.
C2_Witness ==
    /\ pc = "done"
    /\ count_result.kind = "HMMError"
    /\ Len(count_result.hmms) = 2
    /\ \E j \in DOMAIN matches : InSeq(matches[j].hmm, required_cols)

\* C3: for K >= 1 samples, K labels and known families, cazy_counts_multi
\* returns a (K, M) Matrix with the labels as rows, required_cols as columns
\* and cazy_counts of the i-th sample as i-th row.
C3_MultiShape ==
    (/\ pc = "done"
     /\ Len(handles) >= 1
     /\ Len(labels) = Len(handles)
     /\ \A i \in DOMAIN handles : AllObservedKnown(handles[i], required_cols)) =>
        /\ multi_result.kind = "Matrix"
        /\ multi_result.rows = labels
        /\ multi_result.columns = required_cols
        /\ multi_result.arr.nrow = Len(handles)
        /\ multi_result.arr.ncol = Len(required_cols)
        /\ \A i \in DOMAIN handles :
              multi_result.arr.data[i] = cazy_counts(handles[i], required_cols).row

-----------------------------------------------------------------------------
(* Claims about the relative centroid distance *)

\* row i of the batch as a Matrix of its own
SingleRow(d, i) ==
    MatrixInit(<<d.rows[i]>>, d.columns, NdArray(1, d.arr.ncol, <<d.arr.data[i]>>))

\* What C4 says of every row whose distances are not all equal, but for the
\* order of the values: bounds, 1 at the minimum, 0 at the maximum, and the
\* row's values are those of the row taken alone.
RcdRowBasics(i) ==
    LET d == dists.arr.data[i]
        v == rcd_result.arr.data[i]
    IN  /\ \A j \in DOMAIN d : v[j] >= 0 /\ v[j] <= One
        /\ \A j \in DOMAIN d : d[j] = RowMin(d) => v[j] = One
        /\ \A j \in DOMAIN d : d[j] = RowMax(d) => v[j] = 0
        /\ v = rcd(SingleRow(dists, i)).arr.data[1]

NonDegenerate(i) == RowMin(dists.arr.data[i]) # RowMax(dists.arr.data[i])

\* C4 as stated: ... and strictly decreasing in distance.
C4_RcdStrictlyDecreasing ==
    pc = "done" =>
        /\ rcd_result.kind = "Matrix"
        /\ \A i \in 1..dists.arr.nrow : NonDegenerate(i) =>
              /\ RcdRowBasics(i)
              /\ \A j, k \in 1..dists.arr.ncol :
                    dists.arr.data[i][j] < dists.arr.data[i][k]
                        => rcd_result.arr.data[i][j] > rcd_result.arr.data[i][k]

\* C4 amended: for every row whose minimum and maximum distance differ, _rcd
\* gives every class a value in [0, 1], exactly 1 at the row's minimum and
\* exactly 0 at its maximum, the values are non-increasing in distance
\* (d_j < d_k implies rcd_j >= rcd_k), and each row's values depend on that
\* row's distances only.
C4_RcdNonIncreasing ==
    pc = "done" =>
        /\ rcd_result.kind = "Matrix"
        /\ \A i \in 1..dists.arr.nrow : NonDegenerate(i) =>
              /\ RcdRowBasics(i)
              /\ \A j, k \in 1..dists.arr.ncol :
                    dists.arr.data[i][j] < dists.arr.data[i][k]
                        => rcd_result.arr.data[i][j] >= rcd_result.arr.data[i][k]

\* C4 witness: a batch of two rows whose first row has three different
\* distances, the middle one scored strictly between 0 and 1, and whose second
\* row has another minimum and maximum.
C4_Witness ==
    /\ pc = "done"
    /\ dists.arr.nrow = 2 /\ dists.arr.ncol = 3
    /\ NonDegenerate(1) /\ NonDegenerate(2)
    /\ RowMax(dists.arr.data[1]) # RowMax(dists.arr.data[2])
    /\ dists.arr.data[1][1] < dists.arr.data[1][2]
    /\ dists.arr.data[1][2] < dists.arr.data[1][3]
    /\ rcd_result.arr.data[1][1] = One
    /\ rcd_result.arr.data[1][2] > 0 /\ rcd_result.arr.data[1][2] < One
    /\ rcd_result.arr.data[1][3] = 0

-----------------------------------------------------------------------------
(* Claims about Model.predict and the runner *)

CentroidsOf(n) ==
    CASE n = 1 -> model.n1_centroids [] n = 2 -> model.n2_centroids
      [] n = 3 -> model.n3_centroids

\* The number of classes of nomenclature n
NClasses(n) == Len(heap[CentroidsOf(n).rows])

\* The RCD Matrix of nomenclature n for the projected points of the predictions
RcdMatrixOf(n) ==
    With(centroids_rcd(heap, CentroidsOf(n), predictions.pca), LAMBDA r :
    MatVal(r.heap, r.obj))

\* Where the entries of nomenclature n start in the rcd list (0-based)
RcdOffset(n) ==
    Len(heap[counts.rows]) * SumOver([m \in 1..3 |-> NClasses(m)], n - 1)

\* What C5 says of the shape of the predictions: N PCA rows labelled as the
\* input, N x (sum of classes) entries, grouped by nomenclature in order.
PredictShape ==
    LET N == Len(heap[counts.rows])
        rcd_list == heap[predictions.rcd]
    IN  /\ heap[predictions.pca.rows] = heap[counts.rows]
        /\ heap[predictions.pca.arr].nrow = N
        /\ Len(rcd_list) = N * SumOver([m \in 1..3 |-> NClasses(m)], 3)
        /\ \A k1, k2 \in DOMAIN rcd_list : k1 < k2 =>
              \A n1, n2 \in 1..3 :
                  (/\ rcd_list[k1].nomenclature = NomenclatureNames[n1]
                   /\ rcd_list[k2].nomenclature = NomenclatureNames[n2]) => n1 <= n2
        /\ \A k \in DOMAIN rcd_list :
              \E n \in 1..3, i \in 1..N : \E j \in 1..NClasses(n) :
                  rcd_list[k] = [label |-> heap[counts.rows][i],
                                 nomenclature |-> NomenclatureNames[n],
                                 nomenclature_class |-> heap[CentroidsOf(n).rows][j],
                                 value |-> RcdMatrixOf(n).arr.data[i][j]]

\* C5 as stated: ... and every (sample label, nomenclature, class) triple
\* appears exactly once in the rcd list.
C5_OneEntryPerLabelTriple ==
    pc = "predicted" =>
        /\ PredictShape
        /\ \A i \in DOMAIN heap[counts.rows], n \in 1..3 :
              \A j \in 1..NClasses(n) :
                  Cardinality({k \in DOMAIN heap[predictions.rcd] :
                      /\ heap[predictions.rcd][k].label = heap[counts.rows][i]
                      /\ heap[predictions.rcd][k].nomenclature = NomenclatureNames[n]
                      /\ heap[predictions.rcd][k].nomenclature_class
                            = heap[CentroidsOf(n).rows][j]}) = 1

\* C5 amended: predict on a count Matrix with N rows returns N PCA rows
\* (labels in input order) and N x (sum of classes) RCDResult entries,
\* nomenclature1 before nomenclature2 before nomenclature3; every (sample
\* row, nomenclature, class) triple has exactly one entry, which carries the
\* row's label and the RCD cell of that row and class (rows sharing a label
\* each have their own entry).
C5_OneEntryPerRowTriple ==
    pc = "predicted" =>
        /\ PredictShape
        /\ \A n \in 1..3, i \in DOMAIN heap[counts.rows] :
              \A j \in 1..NClasses(n) :
                  heap[predictions.rcd][RcdOffset(n) + (i - 1) * NClasses(n) + j]
                    = [label |-> heap[counts.rows][i],
                       nomenclature |-> NomenclatureNames[n],
                       nomenclature_class |-> heap[CentroidsOf(n).rows][j],
                       value |-> RcdMatrixOf(n).arr.data[i][j]]

\* C5 witness: a batch of two differently labelled samples was predicted and
\* some class scored strictly between 0 and 1.
C5_Witness ==
    /\ pc = "predicted"
    /\ Len(heap[counts.rows]) = 2
    /\ heap[counts.rows][1] # heap[counts.rows][2]
    /\ Len(heap[predictions.rcd]) = 14
    /\ \E k \in DOMAIN heap[predictions.rcd] :
          /\ heap[predictions.rcd][k].value > 0
          /\ heap[predictions.rcd][k].value < One

\* sorted(hmm_lengths.keys())
RECURSIVE InsertSorted(_, _)
InsertSorted(x, s) ==
    IF s = <<>> THEN <<x>>
    ELSE IF HmmRank[x] <= HmmRank[Head(s)] THEN <<x>> \o s
    ELSE <<Head(s)>> \o InsertSorted(x, Tail(s))
RECURSIVE SortedNames(_)
SortedNames(s) == IF s = <<>> THEN <<>> ELSE InsertSorted(Head(s), SortedNames(Tail(s)))
HmmKeys == [i \in DOMAIN heap[model.hmm_lengths] |-> heap[model.hmm_lengths][i][1]]

\* C8: predict raises an error for every count Matrix whose columns are not
\* exactly sorted(hmm_lengths.keys()).
C8_PredictRejectsWrongColumns ==
    (pc \in {"predicted", "failed"}
        /\ heap[counts.columns] # SortedNames(HmmKeys)) => pc = "failed"

\* Everything a Model holds, read through the heap
ModelDeep(h, mdl) ==
    [hmm_lengths |-> h[mdl.hmm_lengths],
     means |-> h[mdl.pca_model.means],
     components |-> h[mdl.pca_model.components],
     n1 |-> MatVal(h, mdl.n1_centroids),
     n2 |-> MatVal(h, mdl.n2_centroids),
     n3 |-> MatVal(h, mdl.n3_centroids),
     training_pca |-> MatVal(h, mdl.training_data.pca),
     training_rcd |-> h[mdl.training_data.rcd],
     training_classes |-> IF mdl.training_data.classes = NoneRef THEN <<"None">>
                          ELSE h[mdl.training_data.classes]]

\* C9: no step of the runner (predict, concat of training_data with the
\* predictions, in any number of calls) changes the Model's hmm_lengths,
\* pca_model, centroids or training_data, and predict and concat leave the
\* input count Matrix unchanged.
C9_ModelAndCountsUnchanged ==
    [][/\ model' = model
       /\ ModelDeep(heap', model') = ModelDeep(heap, model)
       /\ pc' \in {"predicted", "failed", "concatenated"} =>
             (counts' = counts /\ MatVal(heap', counts') = MatVal(heap, counts))]_vars

\* C9 witness: a second call's predictions have been concatenated to the
\* training data (the result holds the training entries and the new ones).
C9_Witness ==
    /\ pc = "concatenated"
    /\ concatenated.kind = "PCAWithLabels"
    /\ Len(heap[concatenated.rcd])
          = Len(heap[model.training_data.rcd]) + Len(heap[predictions.rcd])
    /\ Len(heap[concatenated.pca.rows]) = 1 + Len(heap[counts.rows])

-----------------------------------------------------------------------------
(* matrix.py, model.py: as_dict_of_arrays, from_dict_of_arrays, write, read *)

\* np.array(list_of_str, dtype='U60') ... .tolist()
StrArray(strs, width) ==
    [dtype |-> "U", width |-> width,
     items |-> [i \in DOMAIN strs |-> FixedWidth(strs[i], width)]]

KeyError(k) == [kind |-> "KeyError", key |-> k]
\* The first of the keys that doa lacks (the lookup that raises), if any
MissingKeys(doa, keys) == SelectSeq(keys, LAMBDA k : ~HasKey(doa, k))

\* Matrix.as_dict_of_arrays
matrix_as_dict_of_arrays(m, pfx) ==
    << <<pfx \o "arr", m.arr>>,
       <<pfx \o "rows", StrArray(m.rows, U60)>>,
       <<pfx \o "columns", StrArray(m.columns, U60)>> >>

\* Matrix.from_dict_of_arrays: doa[prefix + "rows"], doa[prefix + "columns"],
\* doa[prefix + "arr"], then Matrix.__init__
matrix_from_dict_of_arrays(doa, pfx) ==
    With(MissingKeys(doa, <<pfx \o "rows", pfx \o "columns", pfx \o "arr">>),
         LAMBDA missing :
    IF missing # <<>> THEN KeyError(Head(missing))
    ELSE MatrixInit(DictGet(doa, pfx \o "rows").items,
                    DictGet(doa, pfx \o "columns").items,
                    DictGet(doa, pfx \o "arr")))

\* np.savez(handle, *args): the positional arrays are stored as arr_0, arr_1, ...
ArrNames == <<"arr_0", "arr_1", "arr_2">>
savez_args(args) == [i \in DOMAIN args |-> <<ArrNames[i], args[i]>>]
\* np.savez(handle, **kwds): each array is stored under its keyword
savez_kwds(kwds) == kwds

\* Matrix.write: np.savez(handle, *self.as_dict_of_arrays(prefix=prefix));
\* unpacking a dict with one star yields its keys, each stored as a 0-d
\* string array.
matrix_write(m, pfx) ==
    savez_args([i \in 1..3 |->
        [dtype |-> "U", item |-> DictKeys(matrix_as_dict_of_arrays(m, pfx))[i]]])

\* Matrix.read: f = np.load(handle); cls.from_dict_of_arrays(f)  (the default
\* prefix "", whatever prefix was given)
matrix_read(f, pfx) == matrix_from_dict_of_arrays(f, "")

\* HMMLengths.to_array: dtype [("hmm", 'U60'), ("count", 'uint64')] (the
\* lengths are natural numbers below 2^64, which uint64 holds exactly)
hmm_lengths_to_array(hmm_lengths) ==
    [dtype |-> "hmm_lengths",
     items |-> [i \in DOMAIN hmm_lengths |->
                  <<FixedWidth(hmm_lengths[i][1], U60), hmm_lengths[i][2]>>]]

\* HMMLengths.from_array: OrderedDict(arr), a repeated key keeps its first
\* position and takes the last value
hmm_lengths_from_array(arr) == DictUpdate(<<>>, arr.items)

\* PCAModel.as_dict_of_arrays / from_dict_of_arrays
pca_model_as_dict_of_arrays(pca_model, pfx) ==
    << <<pfx \o "means", pca_model.means>>,
       <<pfx \o "components", pca_model.components>> >>
pca_model_from_dict_of_arrays(doa, pfx) ==
    With(MissingKeys(doa, <<pfx \o "means", pfx \o "components">>), LAMBDA missing :
    IF missing # <<>> THEN KeyError(Head(missing))
    ELSE [kind |-> "PCAModel", means |-> DictGet(doa, pfx \o "means"),
          components |-> DictGet(doa, pfx \o "components")])

\* RCDResult.as_numpy_array / from_numpy_array: three '<U100' fields and a float
rcd_as_numpy_array(results) ==
    [dtype |-> "RCDResult",
     items |-> [i \in DOMAIN results |->
        [label |-> FixedWidth(results[i].label, U100),
         nomenclature |-> FixedWidth(results[i].nomenclature, U100),
         nomenclature_class |-> FixedWidth(results[i].nomenclature_class, U100),
         value |-> results[i].value]]]
rcd_from_numpy_array(a) == a.items

\* NomenclatureClass.as_numpy_array / from_numpy_array: five '<U100' fields
classes_as_numpy_array(results) ==
    [dtype |-> "NomenclatureClass",
     items |-> [i \in DOMAIN results |->
        [label |-> FixedWidth(results[i].label, U100),
         genome |-> FixedWidth(results[i].genome, U100),
         nomenclature1 |-> FixedWidth(results[i].nomenclature1, U100),
         nomenclature2 |-> FixedWidth(results[i].nomenclature2, U100),
         nomenclature3 |-> FixedWidth(results[i].nomenclature3, U100)]]]
classes_from_numpy_array(a) == a.items

\* classes is None, or a list
NoClasses == [kind |-> "None"]
ClassList(items) == [kind |-> "list", items |-> items]

\* PCAWithLabels.as_dict_of_arrays
pwl_as_dict_of_arrays(pwl, pfx) ==
    With(DictUpdate(<< <<pfx \o "rcd", rcd_as_numpy_array(pwl.rcd)>> >>,
                    matrix_as_dict_of_arrays(pwl.pca, pfx \o "pca_")),
         LAMBDA out :
    IF pwl.classes # NoClasses
    THEN DictSet(out, pfx \o "classes", classes_as_numpy_array(pwl.classes.items))
    ELSE out)

\* PCAWithLabels.from_dict_of_arrays
pwl_from_dict_of_arrays(doa, pfx) ==
    IF ~HasKey(doa, pfx \o "rcd") THEN KeyError(pfx \o "rcd")
    ELSE
    With(matrix_from_dict_of_arrays(doa, pfx \o "pca_"), LAMBDA pca :
    IF pca.kind # "Matrix" THEN pca
    ELSE [kind |-> "PCAWithLabels",
          pca |-> pca,
          rcd |-> rcd_from_numpy_array(DictGet(doa, pfx \o "rcd")),
          classes |-> IF HasKey(doa, pfx \o "classes")
                      THEN ClassList(classes_from_numpy_array(
                                        DictGet(doa, pfx \o "classes")))
                      ELSE NoClasses])

\* Model.as_dict_of_arrays
model_as_dict_of_arrays(m, pfx) ==
    DictUpdate(DictUpdate(DictUpdate(DictUpdate(DictUpdate(
        << <<pfx \o "hmm_lengths", hmm_lengths_to_array(m.hmm_lengths)>> >>,
        pca_model_as_dict_of_arrays(m.pca_model, pfx \o "pca_model_")),
        matrix_as_dict_of_arrays(m.n1_centroids, pfx \o "n1_centroids_")),
        matrix_as_dict_of_arrays(m.n2_centroids, pfx \o "n2_centroids_")),
        matrix_as_dict_of_arrays(m.n3_centroids, pfx \o "n3_centroids_")),
        pwl_as_dict_of_arrays(m.training_data, pfx \o "training_data_"))

\* The first part that failed to load (its exception leaves the call), if any
FirstFailure(parts) == SelectSeq(parts, LAMBDA x : x.kind \in {"KeyError", "AssertionError"})

\* Model.from_dict_of_arrays
model_from_dict_of_arrays(doa, pfx) ==
    IF ~HasKey(doa, pfx \o "hmm_lengths") THEN KeyError(pfx \o "hmm_lengths")
    ELSE
    With(pca_model_from_dict_of_arrays(doa, pfx \o "pca_model_"), LAMBDA pca_model :
    With(matrix_from_dict_of_arrays(doa, pfx \o "n1_centroids_"), LAMBDA n1_centroids :
    With(matrix_from_dict_of_arrays(doa, pfx \o "n2_centroids_"), LAMBDA n2_centroids :
    With(matrix_from_dict_of_arrays(doa, pfx \o "n3_centroids_"), LAMBDA n3_centroids :
    With(pwl_from_dict_of_arrays(doa, pfx \o "training_data_"), LAMBDA training_data :
    With(FirstFailure(<<pca_model, n1_centroids, n2_centroids,
                        n3_centroids, training_data>>), LAMBDA failed :
    IF failed # <<>> THEN Head(failed)
    ELSE [kind |-> "Model",
          n1_centroids |-> n1_centroids, n2_centroids |-> n2_centroids,
          n3_centroids |-> n3_centroids, pca_model |-> pca_model,
          hmm_lengths |-> hmm_lengths_from_array(DictGet(doa, pfx \o "hmm_lengths")),
          training_data |-> training_data]))))))

\* Model.write: np.savez(handle, **self.as_dict_of_arrays(prefix=prefix))
model_write(m, pfx) == savez_kwds(model_as_dict_of_arrays(m, pfx))

\* Model.read: f = np.load(handle); cls.from_dict_of_arrays(f, prefix=prefix)
model_read(f, pfx) == model_from_dict_of_arrays(f, pfx)

-----------------------------------------------------------------------------
(* SpecSerial: a Model or a Matrix is written with a prefix and read back *)

RECURSIVE Repeat(_, _)
\* str * n
Repeat(str, n) == IF n = 0 THEN "" ELSE str \o Repeat(str, n - 1)

\* Sample labels: a short one, one that fills 'U60' exactly, one that is a
\* character longer, and one longer than '<U100'.
LabelChoices ==
    {"test", Repeat("a", U60), Repeat("a", U60) \o "b", Repeat("c", U100) \o "d"}

Prefixes == {"", "m_"}

\* The training data of a Model fitted on the samples lbls
TrainingDataOf(lbls, with_classes) ==
    [kind |-> "PCAWithLabels",
     pca |-> MatrixInit(lbls, SubSeq(PcNames, 1, 2),
                        NdArray(Len(lbls), 2, [i \in DOMAIN lbls |-> <<3, 4>>])),
     rcd |-> from_matrix([rows |-> lbls, columns |-> N1Centroids.rows,
                          arr |-> NdArray(Len(lbls), 2,
                                          [i \in DOMAIN lbls |-> <<0, One>>])],
                         "nomenclature1")
             \o from_matrix([rows |-> lbls, columns |-> N3Centroids.rows,
                             arr |-> NdArray(Len(lbls), 2,
                                             [i \in DOMAIN lbls |-> <<One, NaN>>])],
                            "nomenclature3"),
     classes |-> IF with_classes
                 THEN ClassList([i \in DOMAIN lbls |->
                        [label |-> lbls[i], genome |-> "genomeA",
                         nomenclature1 |-> "necrotroph", nomenclature2 |-> "saprotroph",
                         nomenclature3 |-> "saprotroph"]])
                 ELSE NoClasses]

AsMatrix(mv) == MatrixInit(mv.rows, mv.columns, mv.arr)

\* The Models written: fitted on one to MaxRows samples, with or without classes
ModelChoices ==
    { [kind |-> "Model",
       n1_centroids |-> AsMatrix(N1Centroids), n2_centroids |-> AsMatrix(N2Centroids),
       n3_centroids |-> AsMatrix(N3Centroids),
       pca_model |-> [kind |-> "PCAModel", means |-> <<1, 2>>,
                      components |-> ComponentsArr],
       hmm_lengths |-> HmmLengthsItems,
       training_data |-> TrainingDataOf(lbls, with_classes)] :
         lbls \in UNION {SeqsOfLen(LabelChoices, n) : n \in 1..MaxRows},
         with_classes \in BOOLEAN }

\* The Matrices written: centroids, and count Matrices of one sample
MatrixChoices ==
    {AsMatrix(N1Centroids), AsMatrix(N2Centroids)}
    \cup { MatrixInit(<<l>>, <<"CBM1", "GH3">>, NdArray(1, 2, <<<<v, 0>>>>)) :
             l \in LabelChoices, v \in CountValues }

InitSerial ==
    /\ pc = "stored"
    /\ stored \in ModelChoices \cup MatrixChoices
    /\ prefix = "" /\ read_prefix = ""
    /\ npz = NoResult
    /\ loaded = NoResult
    /\ required_cols = <<>>
    /\ CountIdle /\ MultiIdle /\ RcdIdle /\ ModelIdle /\ ParseIdle /\ SweepIdle /\ SplitIdle /\ MatrixIdle
    /\ TrainIdle /\ PipeIdle /\ DlIdle

\* model.write(handle, prefix=p)
ModelWrite ==
    /\ pc = "stored" /\ stored.kind = "Model"
    /\ \E p \in Prefixes :
          /\ prefix' = p
          /\ npz' = model_write(stored, p)
    /\ pc' = "written"
    /\ UNCHANGED <<stored, read_prefix, loaded, countVars, multiVars, rcdVars,
                   modelVars, parseVars, sweepVars, splitVars, matrixVars, trainVars, pipeVars, dlVars>>

\* Model.read(handle, prefix=p)
ModelRead ==
    /\ pc = "written" /\ stored.kind = "Model"
    /\ \E p \in Prefixes :
          /\ read_prefix' = p
          /\ loaded' = model_read(npz, p)
    /\ pc' = "read"
    /\ UNCHANGED <<stored, prefix, npz, countVars, multiVars, rcdVars,
                   modelVars, parseVars, sweepVars, splitVars, matrixVars, trainVars, pipeVars, dlVars>>

\* matrix.write(handle, prefix=p)
MatrixWrite ==
    /\ pc = "stored" /\ stored.kind = "Matrix"
    /\ \E p \in Prefixes :
          /\ prefix' = p
          /\ npz' = matrix_write(stored, p)
    /\ pc' = "written"
    /\ UNCHANGED <<stored, read_prefix, loaded, countVars, multiVars, rcdVars,
                   modelVars, parseVars, sweepVars, splitVars, matrixVars, trainVars, pipeVars, dlVars>>

\* Matrix.read(handle, prefix=p)
MatrixRead ==
    /\ pc = "written" /\ stored.kind = "Matrix"
    /\ \E p \in Prefixes :
          /\ read_prefix' = p
          /\ loaded' = matrix_read(npz, p)
    /\ pc' = "read"
    /\ UNCHANGED <<stored, prefix, npz, countVars, multiVars, rcdVars,
                   modelVars, parseVars, sweepVars, splitVars, matrixVars, trainVars, pipeVars, dlVars>>

NextSerial == ModelWrite \/ ModelRead \/ MatrixWrite \/ MatrixRead

SpecSerial == InitSerial /\ [][NextSerial]_vars

-----------------------------------------------------------------------------
(* Claims about write and read *)

\* C6: Model.read of what Model.write wrote, with the same prefix, yields a
\* Model whose hmm_lengths, pca_model, three centroid matrices and
\* training_data (pca matrix, rcd list, classes, None included) equal those
\* of the Model written.
C6_ModelRoundTrip ==
    (pc = "read" /\ stored.kind = "Model" /\ read_prefix = prefix) =>
        /\ loaded.kind = "Model"
        /\ loaded.hmm_lengths = stored.hmm_lengths
        /\ loaded.pca_model = stored.pca_model
        /\ loaded.n1_centroids = stored.n1_centroids
        /\ loaded.n2_centroids = stored.n2_centroids
        /\ loaded.n3_centroids = stored.n3_centroids
        /\ loaded.training_data.pca = stored.training_data.pca
        /\ loaded.training_data.rcd = stored.training_data.rcd
        /\ loaded.training_data.classes = stored.training_data.classes

\* C7: Matrix.read(handle, prefix=p) of what m.write(handle, prefix=p) wrote
\* succeeds and returns a Matrix with the rows, columns and data of m.
C7_MatrixRoundTrip ==
    (pc = "read" /\ stored.kind = "Matrix" /\ read_prefix = prefix) =>
        /\ loaded.kind = "Matrix"
        /\ loaded.rows = stored.rows
        /\ loaded.columns = stored.columns
        /\ loaded.arr = stored.arr

-----------------------------------------------------------------------------
(* parsers.py: predict_filetype, parse, DBCAN.from_file, HMMER.from_file *)

MaxQueries == 2
MaxLines == 2

\* FileType
FileTypes == {"dbcan", "hmmer_text", "hmmer_domtab"}

\* ParseError(filename, line, message); line is None (NoLine) when not given
NoLine == 0
ParseError(filename, line, message) ==
    [kind |-> "ParseError", filename |-> filename, line |-> line, why |-> message]

\* predict_filetype: line is the first non-blank line, named by the regular
\* expression that matches it ("" when the file has no non-blank line).
predict_filetype(name, line) ==
    IF line = "" THEN ParseError(name, NoLine, "no non-empty lines")
    ELSE IF line = "TEXT_FIRSTLINE" THEN [kind |-> "str", value |-> "hmmer_text"]
    ELSE IF line = "DOMTAB_FIRSTLINE" THEN [kind |-> "str", value |-> "hmmer_domtab"]
    ELSE IF line = "DBCAN_FIRSTLINE" THEN [kind |-> "str", value |-> "dbcan"]
    ELSE ParseError(name, NoLine, "not a supported format")

\* The regular expression that matches a line of a dbCAN table (re.match
\* anchors at the start only, so a row with an extra column still matches
\* DBCAN_FIRSTLINE)
LineClass(line) ==
    IF line.kind \in {"row", "long row"} THEN "DBCAN_FIRSTLINE"
    ELSE IF line.kind = "banner" THEN "TEXT_FIRSTLINE"
    ELSE "other"

\* The first non-blank line of a file: the banner of hmmscan, the header of
\* a domain table, the first line of a dbCAN table that is not blank ("" when
\* there is none).
NonBlank(lines) == SelectSeq(lines, LAMBDA l : l.kind # "blank")
FirstLine(f) ==
    IF f.format = "hmmer_text" THEN "TEXT_FIRSTLINE"
    ELSE IF f.format = "hmmer_domtab" THEN "DOMTAB_FIRSTLINE"
    ELSE IF NonBlank(f.lines) = <<>> THEN ""
    ELSE LineClass(Head(NonBlank(f.lines)))

\* REGEX.sub("", string) with REGEX = \.p?hmm$
EndsWith(str, suffix) ==
    Len(str) >= Len(suffix)
        /\ SubSeq(str, Len(str) - Len(suffix) + 1, Len(str)) = suffix

\* str.rstrip(".hmm"): the trailing characters '.', 'h' and 'm' removed
RECURSIVE RStrip(_)
RStrip(str) ==
    IF str # "" /\ SubSeq(str, Len(str), Len(str)) \in {".", "h", "m"}
    THEN RStrip(SubSeq(str, 1, Len(str) - 1))
    ELSE str

\* A plausible slip: the suffix removed as a set of characters.
split_hmm_rstrip(str) == RStrip(str)

\* The $ of the pattern matches at the end of the string and also before a
\* newline that ends it.
split_hmm(str) ==
    IF EndsWith(str, ".phmm") THEN SubSeq(str, 1, Len(str) - 5)
    ELSE IF EndsWith(str, ".hmm") THEN SubSeq(str, 1, Len(str) - 4)
    ELSE IF EndsWith(str, ".phmm\n") THEN SubSeq(str, 1, Len(str) - 6) \o "\n"
    ELSE IF EndsWith(str, ".hmm\n") THEN SubSeq(str, 1, Len(str) - 5) \o "\n"
    ELSE str

\* hmm_lens[hmm]
HasHmm(hmm_lens, hmm) == \E i \in DOMAIN hmm_lens : hmm_lens[i][1] = hmm
HmmLen(hmm_lens, hmm) == hmm_lens[CHOOSE i \in DOMAIN hmm_lens : hmm_lens[i][1] = hmm][2]

\* A plausible slip: the record named after the profile hit, not the query.
get_hsp_hit_id(query, hit, hsp, hmm_lens) ==
    [hmm |-> split_hmm(hit.id),
     hmm_len |-> HmmLen(hmm_lens, split_hmm(hit.id)),
     seqid |-> hit.id,
     evalue_exp |-> hsp.evalue_exp,
     hmm_from |-> hsp.hit_start, hmm_to |-> hsp.hit_end,
     ali_from |-> hsp.query_start, ali_to |-> hsp.query_end]

\* HMMER._get_hsp (an e-value is 10^-evalue_exp)
get_hsp(query, hit, hsp, hmm_lens) ==
    [hmm |-> split_hmm(hit.id),
     hmm_len |-> HmmLen(hmm_lens, split_hmm(hit.id)),
     seqid |-> query.id,
     evalue_exp |-> hsp.evalue_exp,
     hmm_from |-> hsp.hit_start, hmm_to |-> hsp.hit_end,
     ali_from |-> hsp.query_start, ali_to |-> hsp.query_end]

\* The (hit, hsp) pairs of a query whose alignment is not empty, in file order
RECURSIVE HitHsps(_)
HitHsps(hits) ==
    IF hits = <<>> THEN <<>>
    ELSE [i \in DOMAIN Head(hits).hsps |-> <<Head(hits), Head(hits).hsps[i]>>]
         \o HitHsps(Tail(hits))
\* A plausible slip: only the negative spans dropped.
KeptHspsNotNegative(query) ==
    SelectSeq(HitHsps(query.hits), LAMBDA x : ~(x[2].query_end - x[2].query_start < 0))

\* if hsp.query_end - hsp.query_start <= 0: continue
KeptHsps(query) ==
    SelectSeq(HitHsps(query.hits), LAMBDA x : ~(x[2].query_end - x[2].query_start <= 0))

\* query_matches.sort(key=lambda x: (x.ali_from, x.ali_to)), a stable sort
SortKeyLeq(a, b) ==
    a.ali_from < b.ali_from \/ (a.ali_from = b.ali_from /\ a.ali_to <= b.ali_to)
RECURSIVE InsertByKey(_, _)
InsertByKey(sorted, x) ==
    IF sorted = <<>> THEN <<x>>
    ELSE IF SortKeyLeq(sorted[Len(sorted)], x) THEN Append(sorted, x)
    ELSE Append(InsertByKey(SubSeq(sorted, 1, Len(sorted) - 1), x), sorted[Len(sorted)])
RECURSIVE SortMatches(_)
SortMatches(ms) ==
    IF ms = <<>> THEN <<>>
    ELSE InsertByKey(SortMatches(SubSeq(ms, 1, Len(ms) - 1)), ms[Len(ms)])

\* A plausible slip: an e-value tie also replaces the winner.
lower_evalue_or_tie(match, winner) == match.evalue_exp >= winner.evalue_exp

\* A plausible slip: the comparison turned around.
higher_evalue(match, winner) == match.evalue_exp < winner.evalue_exp

\* match.evalue < winner.evalue (the e-value is 10^-evalue_exp)
lower_evalue(match, winner) == match.evalue_exp > winner.evalue_exp

\* HMMER._distinct_matches with overlap_thres = 0.5: st holds the winners so
\* far and the current winner; (dist / length) > 0.5 is 2 * dist > length.
RECURSIVE DistinctLoop(_, _, _)
DistinctLoop(winners, winner, ms) ==
    IF ms = <<>> THEN Append(winners, winner)
    ELSE LET match == Head(ms)
             dist == winner.ali_to - match.ali_from
             winner_nooverlap == 2 * dist > winner.ali_to - winner.ali_from
             match_nooverlap == 2 * dist > match.ali_to - match.ali_from
         IN  IF dist > 0 /\ (winner_nooverlap \/ match_nooverlap)
             THEN DistinctLoop(winners,
                               IF lower_evalue(match, winner)
                               THEN match ELSE winner,
                               Tail(ms))
             ELSE DistinctLoop(Append(winners, winner), match, Tail(ms))
distinct_matches(ms) ==
    IF ms = <<>> THEN <<>> ELSE DistinctLoop(<<>>, Head(ms), Tail(ms))

\* HMMER._filter_significant: coverage >= 0.3, and e-value < 1e-5 for
\* alignments over 80 long, < 1e-3 for the others
filter_significant(match) ==
    IF 10 * (match.hmm_to - match.hmm_from) < 3 * match.hmm_len THEN FALSE
    ELSE IF (match.ali_to - match.ali_from) > 80 THEN match.evalue_exp > 5
    ELSE match.evalue_exp > 3

\* A plausible slip: the HSPs of a family that hmm_lens lacks are skipped.
QueryRowsLenient(query, hmm_lens) ==
    [kind |-> "rows",
     rows |-> SelectSeq(
         distinct_matches(SortMatches(
             [i \in DOMAIN SelectSeq(KeptHsps(query),
                                     LAMBDA x : HasHmm(hmm_lens, split_hmm(x[1].id))) |->
                 get_hsp(query,
                         SelectSeq(KeptHsps(query),
                                   LAMBDA x : HasHmm(hmm_lens, split_hmm(x[1].id)))[i][1],
                         SelectSeq(KeptHsps(query),
                                   LAMBDA x : HasHmm(hmm_lens, split_hmm(x[1].id)))[i][2],
                         hmm_lens)])),
         filter_significant)]

\* The rows one query yields: KeyError when a hit's family is not in hmm_lens
QueryRows(query, hmm_lens) ==
    IF \E i \in DOMAIN KeptHsps(query) :
          ~HasHmm(hmm_lens, split_hmm(KeptHsps(query)[i][1].id))
    THEN [kind |-> "KeyError"]
    ELSE [kind |-> "rows",
          rows |-> SelectSeq(
              distinct_matches(SortMatches(
                  [i \in DOMAIN KeptHsps(query) |->
                      get_hsp(query, KeptHsps(query)[i][1], KeptHsps(query)[i][2],
                              hmm_lens)])),
              filter_significant)]

\* The loop of HMMER.from_file over the queries SearchIO.parse yields
RECURSIVE QueryLoop(_, _, _, _)
QueryLoop(name, queries, hmm_lens, yielded) ==
    IF queries = <<>> THEN [kind |-> "matches", matches |-> yielded]
    ELSE With(QueryRows(Head(queries), hmm_lens), LAMBDA r :
         IF r.kind = "KeyError" THEN ParseError(name, NoLine, "a different version of DBCAN")
         ELSE QueryLoop(name, Tail(queries), hmm_lens, yielded \o r.rows))

\* HMMER.from_file, consumed to the end.  qcounts is the number of queries;
\* with none, predict_filetype names the format and is compared to format.
hmmer_from_file(f, hmm_lens, format) ==
    With(QueryLoop(f.name, f.queries, hmm_lens, <<>>), LAMBDA looped :
    IF looped.kind = "ParseError" THEN looped
    ELSE IF Len(f.queries) = 0
    THEN With(predict_filetype(f.name, FirstLine(f)), LAMBDA predicted :
         IF predicted.kind = "ParseError" THEN predicted
         ELSE IF format # predicted.value
         THEN ParseError(f.name, NoLine, "Couldn't parse file as " \o format \o " format")
         ELSE [kind |-> "matches", matches |-> looped.matches, warned |-> TRUE])
    ELSE [kind |-> "matches", matches |-> looped.matches, warned |-> FALSE])

\* A line that DBCAN.from_file skips: a comment or a blank line
Skipped(line) == line.kind \in {"comment", "banner", "blank"}
\* A data line that DBCAN.from_string rejects with LineParseError
Malformed(line) == line.kind \in {"short row", "long row", "bad number"}

\* DBCAN.from_file, consumed to the end.  The first data line that
\* DBCAN.from_string rejects ends the loop: predict_filetype re-reads the
\* first non-blank line, and the ParseError carries line_number only when
\* that line looks like a dbCAN row.
dbcan_from_file(f) ==
    IF \E i \in DOMAIN f.lines : Malformed(f.lines[i])
    THEN With(CHOOSE i \in DOMAIN f.lines :
                /\ Malformed(f.lines[i])
                /\ \A k \in 1..(i - 1) : ~Malformed(f.lines[k]),
              LAMBDA line_number :
         With(predict_filetype(f.name, FirstLine(f)), LAMBDA predicted :
         IF predicted.kind = "ParseError" THEN predicted
         ELSE IF predicted.value # "dbcan"
         THEN ParseError(f.name, NoLine, "Couldn't parse file as dbcan format")
         ELSE ParseError(f.name, line_number, "LineParseError")))
    ELSE With(SelectSeq(f.lines, LAMBDA l : ~Skipped(l)), LAMBDA data :
         [kind |-> "matches",
          matches |-> [i \in DOMAIN data |->
                          [hmm |-> split_hmm(data[i].hmm), seqid |-> data[i].seqid]],
          \* nmatches == 0
          warned |-> Len(data) = 0])

\* parsers.parse(handle, format, hmm_lens), then the generator is consumed
parse(f, format, hmm_lens) ==
    IF format = "dbcan" THEN dbcan_from_file(f)
    ELSE IF format = "hmmer_domtab" THEN hmmer_from_file(f, hmm_lens, "hmmscan3-domtab")
    ELSE IF format = "hmmer_text" THEN hmmer_from_file(f, hmm_lens, "hmmer3-text")
    ELSE [kind |-> "ValueError"]

-----------------------------------------------------------------------------
(* SpecParse: a file that is well formed in its declared format is parsed,  *)
(* consumed, and counted                                                    *)

Hsp(qs, qe, hs, he, e) ==
    [query_start |-> qs, query_end |-> qe, hit_start |-> hs, hit_end |-> he,
     evalue_exp |-> e]

\* Query results as SearchIO yields them: without hits, with a significant
\* hit, with hits below the coverage or e-value thresholds, with a hit whose
\* coverage is 0.3 exactly, with two overlapping hits, with an empty alignment, with two families aligned to
\* the same region at the same e-value, with a family that the Model does
\* not know.
QueryChoices ==
    { [id |-> "seq1", hits |-> <<>>],
      [id |-> "seq1", hits |-> <<[id |-> "GH3.hmm", hsps |-> <<Hsp(0, 100, 0, 18, 10)>>]>>],
      [id |-> "seq2", hits |-> <<[id |-> "GH3.hmm", hsps |-> <<Hsp(0, 100, 0, 4, 10)>>]>>],
      [id |-> "seq1", hits |-> <<[id |-> "GH3.hmm", hsps |-> <<Hsp(0, 50, 0, 6, 10)>>]>>],
      [id |-> "seq1", hits |-> <<[id |-> "CBM1.phmm", hsps |-> <<Hsp(0, 50, 0, 8, 2)>>]>>],
      [id |-> "seq2", hits |-> <<[id |-> "CBM1", hsps |-> <<Hsp(0, 100, 0, 8, 4)>>]>>],
      [id |-> "seq2", hits |-> <<[id |-> "GH3.hmm", hsps |-> <<Hsp(10, 60, 0, 18, 10)>>],
                                 [id |-> "CBM1.hmm", hsps |-> <<Hsp(0, 50, 0, 8, 4),
                                                                Hsp(200, 250, 0, 8, 4)>>]>>],
      [id |-> "seq1", hits |-> <<[id |-> "GH3.hmm", hsps |-> <<Hsp(7, 7, 0, 18, 10)>>]>>],
      [id |-> "seq2", hits |-> <<[id |-> "GH3.hmm", hsps |-> <<Hsp(0, 50, 0, 18, 10)>>],
                                 [id |-> "CBM1.hmm", hsps |-> <<Hsp(0, 50, 0, 8, 10)>>]>>],
      [id |-> "seq1", hits |-> <<[id |-> "CE10.hmm", hsps |-> <<Hsp(0, 50, 0, 8, 10)>>]>>],
      [id |-> "seq2", hits |-> <<[id |-> "CBM1.hmm", hsps |-> <<Hsp(30, 30, 0, 8, 10),
                                                                Hsp(0, 50, 0, 8, 10),
                                                                Hsp(40, 20, 0, 8, 10)>>]>>],
      [id |-> "seq1", hits |-> <<[id |-> "CE10.hmm", hsps |-> <<Hsp(7, 7, 0, 8, 10)>>]>>] }

\* The lines of a dbCAN table: rows, rows with a column missing, with a
\* column too many, with a non-numeric number, comments (an ordinary one and
\* the banner of hmmscan), blank lines
DbcanLineChoices ==
    { [kind |-> "row", hmm |-> "GH3.hmm", seqid |-> "seq1"],
      [kind |-> "row", hmm |-> "CBM1.hmm", seqid |-> "seq2"],
      [kind |-> "row", hmm |-> "CE10.hmm", seqid |-> "seq1"],
      [kind |-> "short row"], [kind |-> "long row"], [kind |-> "bad number"],
      [kind |-> "comment"], [kind |-> "banner"], [kind |-> "blank"] }

\* handle.name
FileNames == {"first.txt", "second.txt"}

FileChoices ==
    { [format |-> ft, name |-> nm, queries |-> qs] :
        ft \in {"hmmer_text", "hmmer_domtab"}, nm \in FileNames,
        qs \in SeqsUpTo(QueryChoices, MaxQueries) }
    \cup { [format |-> "dbcan", name |-> nm, lines |-> ls] :
              nm \in FileNames, ls \in SeqsUpTo(DbcanLineChoices, MaxLines) }

InitParse ==
    /\ pc = "opened"
    /\ file \in FileChoices
    /\ parsed = NoResult
    /\ required_cols = [i \in DOMAIN HmmLengthsItems |-> HmmLengthsItems[i][1]]
    /\ CountIdle /\ MultiIdle /\ RcdIdle /\ ModelIdle /\ SerialIdle /\ SweepIdle /\ SplitIdle /\ MatrixIdle
    /\ TrainIdle /\ PipeIdle /\ DlIdle

\* parsed = parsers.parse(h, file_format, model.hmm_lengths), consumed
Parse ==
    /\ pc = "opened"
    /\ parsed' = parse(file, file.format, HmmLengthsItems)
    /\ pc' = "parsed"
    /\ UNCHANGED <<file, countVars, multiVars, rcdVars, modelVars, serialVars, sweepVars, splitVars, matrixVars, trainVars, pipeVars, dlVars>>

\* cazy_counts(parsed, label, required_cols)
CountParsed ==
    /\ pc = "parsed" /\ parsed.kind = "matches"
    /\ matches' = parsed.matches
    /\ count_result' = cazy_counts(parsed.matches, required_cols)
    /\ pc' = "counted"
    /\ UNCHANGED <<required_cols, parseVars, multiVars, rcdVars, modelVars, serialVars, sweepVars, splitVars, matrixVars, trainVars, pipeVars, dlVars>>

NextParse == Parse \/ CountParsed

SpecParse == InitParse /\ [][NextParse]_vars

-----------------------------------------------------------------------------
(* Claims about parsers.parse *)

\* No row of the file is significant: a dbCAN table without rows, a HMMER
\* file whose queries have no alignment that passes the thresholds.
NoSignificantMatch(f) ==
    IF f.format = "dbcan" THEN \A i \in DOMAIN f.lines : Skipped(f.lines[i])
    ELSE \A i \in DOMAIN f.queries :
            \A j \in DOMAIN f.queries[i].hits :
               /\ HasHmm(HmmLengthsItems, split_hmm(f.queries[i].hits[j].id))
               /\ \A k \in DOMAIN f.queries[i].hits[j].hsps :
                     \/ f.queries[i].hits[j].hsps[k].query_end
                          <= f.queries[i].hits[j].hsps[k].query_start
                     \/ ~filter_significant(get_hsp(f.queries[i], f.queries[i].hits[j],
                                                    f.queries[i].hits[j].hsps[k],
                                                    HmmLengthsItems))

\* C10: for an input that is well formed in the declared format and has zero
\* query results or zero significant matches, parse followed by full
\* consumption raises no error and yields no match, so that cazy_counts
\* returns the all-zero vector.
C10_EmptyInputIsNoError ==
    (pc \in {"parsed", "counted"} /\ NoSignificantMatch(file)) =>
        /\ parsed.kind = "matches"
        /\ parsed.matches = <<>>
        /\ pc = "counted" =>
              (count_result.kind = "row"
                 /\ \A i \in DOMAIN count_result.row : count_result.row[i] = 0)

-----------------------------------------------------------------------------
(* Claims about the zero-CAZyme warning of cazy_counts_multi *)

\* The count row of sample i is entirely zero
ZeroRow(i) ==
    /\ cazy_counts(handles[i], required_cols).kind = "row"
    /\ \A j \in DOMAIN required_cols :
          cazy_counts(handles[i], required_cols).row[j] = 0

\* C11: when a sample's count row is entirely zero, cazy_counts_multi raises
\* nothing because of it and returns the Matrix of the samples' rows, the
\* zero row included.
C11_ZeroRowIsNoError ==
    (/\ pc = "done"
     /\ Len(labels) = Len(handles)
     /\ Len(required_cols) >= 1
     /\ \A i \in DOMAIN handles : AllObservedKnown(handles[i], required_cols)
     /\ \E i \in DOMAIN handles : ZeroRow(i)) =>
        /\ multi_result.kind = "Matrix"
        /\ multi_result.rows = labels
        /\ \A i \in DOMAIN handles :
              multi_result.arr.data[i] = cazy_counts(handles[i], required_cols).row

\* The physical line number of the first malformed data line of a dbCAN file
FirstMalformed(f) ==
    CHOOSE n \in DOMAIN f.lines :
        Malformed(f.lines[n]) /\ \A k \in 1..(n - 1) : ~Malformed(f.lines[k])

\* C12: DBCAN.from_file on an input whose first malformed data line is
\* physical line n raises ParseError with line = n and filename = the
\* handle's name, whatever the other lines of the file are.
C12_ParseErrorCarriesLine ==
    (/\ pc = "parsed"
     /\ file.format = "dbcan"
     /\ \E i \in DOMAIN file.lines : Malformed(file.lines[i])) =>
        /\ parsed.kind = "ParseError"
        /\ parsed.filename = file.name
        /\ parsed.line = FirstMalformed(file)

\* The orders in which the items of seq can be written
PermsOf(seq) ==
    { [i \in DOMAIN seq |-> seq[p[i]]] : p \in Permutations(DOMAIN seq) }

\* The count vector of a parse outcome (the outcome itself when it is an error)
CountsOf(outcome) ==
    IF outcome.kind = "matches" THEN cazy_counts(outcome.matches, required_cols)
    ELSE [kind |-> outcome.kind]

\* C13: for HMMER input, the count vector of HMMER.from_file followed by
\* cazy_counts is the same for every order of the candidate hits inside one
\* query block.
C13_HitOrderInvariant ==
    (pc = "parsed" /\ file.format # "dbcan") =>
        \A i \in DOMAIN file.queries :
            \A hits \in PermsOf(file.queries[i].hits) :
                CountsOf(parse([file EXCEPT !.queries[i].hits = hits],
                               file.format, HmmLengthsItems))
                    = CountsOf(parsed)

-----------------------------------------------------------------------------
(* HMMER._distinct_matches on its own (SpecSweep): the argument is any list  *)
(* of matches sorted by (ali_from, ali_to) with positive alignment lengths,  *)
(* as HMMER.from_file hands it over.                                         *)

MaxAli == 6
MaxSweep == 3

\* The e-values that occur, as exponents (1e-4 and 1e-10)
EvalueExps == {4, 10}

\* The matches of one query: only the fields the sweep reads
MatchChoices ==
    { [ali_from |-> a, ali_to |-> b, evalue_exp |-> e] :
        a \in 0..MaxAli, b \in 0..MaxAli, e \in EvalueExps }

\* hsp.query_end - hsp.query_start <= 0 is dropped before the sweep
PositiveLength(match) == match.ali_to - match.ali_from > 0

IsSorted(ms) == \A i \in 1..(Len(ms) - 1) : SortKeyLeq(ms[i], ms[i + 1])

InitSweep ==
    /\ pc = "start"
    /\ query_matches = <<>>
    /\ query_winners = NoResult
    /\ required_cols = <<>>
    /\ CountIdle /\ MultiIdle /\ RcdIdle /\ ModelIdle /\ SerialIdle /\ ParseIdle
    /\ SplitIdle /\ MatrixIdle
    /\ TrainIdle /\ PipeIdle /\ DlIdle

\* query_matches.append(row), for the rows that leave the list sorted
AppendMatch ==
    /\ pc = "start" /\ Len(query_matches) < MaxSweep
    /\ \E row \in MatchChoices :
          /\ PositiveLength(row)
          /\ IsSorted(Append(query_matches, row))
          /\ query_matches' = Append(query_matches, row)
    /\ UNCHANGED <<pc, query_winners, countVars, multiVars, rcdVars, modelVars,
                   serialVars, parseVars, splitVars, matrixVars, trainVars, pipeVars, dlVars>>

\* query_winners = cls._distinct_matches(query_matches, overlap_thres)
Sweep ==
    /\ pc = "start"
    /\ query_winners' = distinct_matches(query_matches)
    /\ pc' = "swept"
    /\ UNCHANGED <<query_matches, countVars, multiVars, rcdVars, modelVars,
                   serialVars, parseVars, splitVars, matrixVars, trainVars, pipeVars, dlVars>>

\* _distinct_matches run again, on the list it returned
SweepAgain ==
    /\ pc = "swept"
    /\ query_matches' = query_winners
    /\ query_winners' = distinct_matches(query_winners)
    /\ pc' = "swept again"
    /\ UNCHANGED <<countVars, multiVars, rcdVars, modelVars, serialVars,
                   parseVars, splitVars, matrixVars, trainVars, pipeVars, dlVars>>

NextSweep == AppendMatch \/ Sweep \/ SweepAgain

SpecSweep == InitSweep /\ [][NextSweep]_vars

\* C14: the sweep is idempotent; run on the list it returned for a sorted
\* list of matches of positive length, _distinct_matches returns that list
\* unchanged.
C14_SweepIdempotent ==
    pc = "swept again" => query_winners = query_matches

\* The reference single-winner sweep: ref[k] is <<committed winners, current
\* winner>> after the first k candidates.
ReferenceSweep(ms) ==
    LET ref[k \in 1..Len(ms)] ==
            IF k = 1 THEN <<<<>>, ms[1]>>
            ELSE IF /\ ref[k - 1][2].ali_to - ms[k].ali_from > 0
                    /\ \/ 2 * (ref[k - 1][2].ali_to - ms[k].ali_from)
                            > ref[k - 1][2].ali_to - ref[k - 1][2].ali_from
                       \/ 2 * (ref[k - 1][2].ali_to - ms[k].ali_from)
                            > ms[k].ali_to - ms[k].ali_from
                 THEN <<ref[k - 1][1],
                        IF ms[k].evalue_exp > ref[k - 1][2].evalue_exp
                        THEN ms[k] ELSE ref[k - 1][2]>>
                 ELSE <<Append(ref[k - 1][1], ref[k - 1][2]), ms[k]>>
    IN  IF ms = <<>> THEN <<>>
        ELSE Append(ref[Len(ms)][1], ref[Len(ms)][2])

\* C20: on a query's candidates sorted by (ali_from, ali_to),
\* _distinct_matches returns what the reference single-winner sweep returns:
\* an overlapping candidate replaces the winner only on a strictly lower
\* e-value, any other candidate commits the winner and takes its place, the
\* last winner is committed at the end, and an empty input gives an empty
\* output.
C20_SweepEqualsReference ==
    pc = "swept" => query_winners = ReferenceSweep(query_matches)

\* A sweep of three candidates in which the second overlaps the first at the
\* same e-value and is dropped, and the third starts a new alignment.
C20_Witness ==
    /\ pc = "swept"
    /\ Len(query_matches) = 3 /\ Len(query_winners) = 2
    /\ query_matches[2].evalue_exp = query_matches[1].evalue_exp
    /\ query_matches[2] # query_matches[1]
    /\ query_winners = <<query_matches[1], query_matches[3]>>

-----------------------------------------------------------------------------
(* Claims about degenerate rows of the relative centroid distance *)

\* PCAWithLabels.write_tsv reads sig_rcds[(nomenclature, label)], which is set
\* only by an RCDResult with rcd.value >= threshold (0.8); a comparison with
\* NaN is false.
HasSigRcds(values) ==
    \E j \in DOMAIN values : values[j] # NaN /\ 10 * values[j] >= 8 * One

\* C15: when all centroid distances of a row are equal, _rcd gives every
\* class of that row a defined value in [0, 1], and the result writers
\* complete for that sample.
C15_EqualDistancesDefined ==
    pc = "done" =>
        \A i \in 1..dists.arr.nrow : ~NonDegenerate(i) =>
            /\ \A j \in 1..dists.arr.ncol :
                  /\ rcd_result.arr.data[i][j] # NaN
                  /\ rcd_result.arr.data[i][j] >= 0
                  /\ rcd_result.arr.data[i][j] <= One
            /\ HasSigRcds(rcd_result.arr.data[i])

-----------------------------------------------------------------------------
(* Claims about PCAModel.transform *)

\* "pc{:0>2}".format(k), for k below 100
DecDigit(d) == SubSeq("0123456789", d + 1, d + 1)
PcName(k) == "pc" \o DecDigit(k \div 10) \o DecDigit(k % 10)

\* The array the contract asks of transform for the count array cnt
Projection(cnt, means, components) ==
    NdArray(cnt.nrow, components.nrow,
            [i \in 1..cnt.nrow |-> [k \in 1..components.nrow |->
                SumOver([j \in 1..cnt.ncol |->
                            (cnt.data[i][j] - means[j]) * components.data[k][j]],
                        cnt.ncol)]])

\* C16: for a count Matrix with one column per feature, the Matrix that
\* PCAModel.transform returns (predictions.pca) is a new Matrix with the
\* rows of counts in the same order, the columns pc01, pc02, ... one per row
\* of components, and entry (i, k) the sum over the features j of
\* (counts[i, j] - means[j]) * components[k, j]; counts is not modified.
C16_TransformContract ==
    [][(/\ pc = "counted" /\ pc' = "predicted"
        /\ heap[counts.arr].ncol = Len(heap[model.pca_model.means])) =>
          /\ MatVal(heap', counts) = MatVal(heap, counts)
          /\ {predictions'.pca.rows, predictions'.pca.columns, predictions'.pca.arr}
                \cap (DOMAIN heap) = {}
          /\ heap'[predictions'.pca.rows] = heap[counts.rows]
          /\ heap'[predictions'.pca.columns]
                = [k \in 1..heap[model.pca_model.components].nrow |-> PcName(k)]
          /\ heap'[predictions'.pca.arr]
                = Projection(heap[counts.arr], heap[model.pca_model.means],
                             heap[model.pca_model.components])]_vars

\* C16 witness: two samples with different counts have been transformed by a
\* PCAModel whose means are not zero.
C16_Witness ==
    /\ pc = "predicted"
    /\ heap[counts.arr].ncol = Len(heap[model.pca_model.means])
    /\ heap[model.pca_model.means] = <<1, 2>>
    /\ heap[counts.arr].nrow = 2
    /\ heap[predictions.pca.arr].data[1] # heap[predictions.pca.arr].data[2]
    /\ heap[predictions.pca.columns] = <<"pc01", "pc02">>

-----------------------------------------------------------------------------
(* split_hmm on its own (SpecSplit): the argument is a profile name as its   *)
(* callers hand it over, a token of a stripped line (DBCAN.from_string,      *)
(* HMMER._get_hsp, HMMLengths.read_hmm), with or without a suffix.           *)

MaxName == 3

NameChars == {"A", "h", "m", "p", "."}

\* The strings of at most n characters
RECURSIVE Names(_)
Names(n) ==
    IF n = 0 THEN {""}
    ELSE Names(n - 1) \cup { s \o c : s \in Names(n - 1), c \in NameChars }

\* The names before a suffix is added: the short strings and some family names
Stems == Names(MaxName) \cup {"GH80", "AC1", "AC1h", "A.hmm", "A.phmm", "A.hmm."}

Suffixes == {"", ".hmm", ".phmm"}

InitSplit ==
    /\ pc = "start"
    /\ hmm_id \in { s \o x : s \in Stems, x \in Suffixes }
    /\ hmm_name = NoResult
    /\ required_cols = <<>>
    /\ CountIdle /\ MultiIdle /\ RcdIdle /\ ModelIdle /\ SerialIdle /\ ParseIdle
    /\ SweepIdle /\ MatrixIdle
    /\ TrainIdle /\ PipeIdle /\ DlIdle

\* hmm = split_hmm(hit.id)
SplitHmm ==
    /\ pc = "start"
    /\ hmm_name' = split_hmm(hmm_id)
    /\ pc' = "done"
    /\ UNCHANGED <<hmm_id, countVars, multiVars, rcdVars, modelVars, serialVars,
                   parseVars, sweepVars, matrixVars, trainVars, pipeVars, dlVars>>

NextSplit == SplitHmm

SpecSplit == InitSplit /\ [][NextSplit]_vars

\* s does not end in '.hmm' or '.phmm'
NoSuffix(s) ==
    /\ Len(s) >= 4 => SubSeq(s, Len(s) - 3, Len(s)) # ".hmm"
    /\ Len(s) >= 5 => SubSeq(s, Len(s) - 4, Len(s)) # ".phmm"

\* C17: split_hmm removes exactly one trailing '.hmm' or '.phmm' and nothing
\* else: for every name s not ending in '.hmm' or '.phmm', split_hmm(s) = s,
\* split_hmm(s + '.hmm') = s and split_hmm(s + '.phmm') = s, even when s
\* ends in 'h', 'm' or '.'.
C17_SplitHmmRemovesOneSuffix ==
    pc = "done" =>
        \A s \in Stems : NoSuffix(s) =>
            /\ hmm_id = s => hmm_name = s
            /\ hmm_id = s \o ".hmm" => hmm_name = s
            /\ hmm_id = s \o ".phmm" => hmm_name = s

\* C17 witness: 'AC1h.hmm' has been split into 'AC1h'.
C17_Witness ==
    pc = "done" /\ hmm_id = "AC1h.hmm" /\ hmm_name = "AC1h"

-----------------------------------------------------------------------------
(* Claims about labels in the stored form *)

\* The labels of a list of RCDResult
RcdLabels(results) == { results[i].label : i \in DOMAIN results }
\* The row labels of a Matrix
RowLabels(m) == { m.rows[i] : i \in DOMAIN m.rows }

\* C18: when every label of the Model written has at most 100 characters,
\* the round trip leaves the sample labels of training_data.pca, the class
\* names of the centroid rows and the labels of the RCDResult and
\* NomenclatureClass records unchanged, so the labels of the loaded
\* training_data.rcd are the row labels of the loaded training_data.pca.
C18_LabelsSurviveRoundTrip ==
    (/\ pc = "read" /\ stored.kind = "Model" /\ read_prefix = prefix
     /\ \A l \in RowLabels(stored.training_data.pca) : Len(l) <= U100
     /\ RcdLabels(stored.training_data.rcd) = RowLabels(stored.training_data.pca)) =>
        /\ loaded.kind = "Model"
        /\ loaded.training_data.pca.rows = stored.training_data.pca.rows
        /\ loaded.n1_centroids.rows = stored.n1_centroids.rows
        /\ loaded.n2_centroids.rows = stored.n2_centroids.rows
        /\ loaded.n3_centroids.rows = stored.n3_centroids.rows
        /\ [i \in DOMAIN loaded.training_data.rcd |-> loaded.training_data.rcd[i].label]
              = [i \in DOMAIN stored.training_data.rcd |-> stored.training_data.rcd[i].label]
        /\ loaded.training_data.classes = stored.training_data.classes
        /\ RcdLabels(loaded.training_data.rcd) = RowLabels(loaded.training_data.pca)

-----------------------------------------------------------------------------
(* SpecMatrix: one call of an operation that builds a Matrix, on every       *)
(* bounded argument: Matrix(...), Matrix.from_row, Matrix.concat,            *)
(* Matrix.from_dict_of_arrays, cazy_counts_multi, PCAModel.transform,        *)
(* CentroidsModel.distances and CentroidsModel._rcd.                         *)

\* Matrix.from_row: cls([row], list(columns), arr.reshape(1, -1))
from_row(row, columns, arr) ==
    MatrixInit(<<row>>, columns, NdArray(1, Len(arr), <<arr>>))

\* The Matrices mvs put on a heap one after the other
RECURSIVE PutAll(_, _)
PutAll(h, mvs) ==
    IF mvs = <<>> THEN [heap |-> h, objs |-> <<>>]
    ELSE With(PutAll(h, SubSeq(mvs, 1, Len(mvs) - 1)), LAMBDA p :
         With(PutMatrix(p.heap, mvs[Len(mvs)]), LAMBDA q :
         [heap |-> q.heap, objs |-> Append(p.objs, q.obj)]))

\* What a heap operation returned, read through its heap
Returned(r) == IF r.obj.kind = "Matrix" THEN MatVal(r.heap, r.obj) ELSE r.obj

\* An array of zeros of every shape
ZeroArrays ==
    { NdArray(n, c, [i \in 1..n |-> [j \in 1..c |-> 0]]) :
        n \in 0..MaxRows, c \in 0..MaxCols }
ZeroVectors == { [j \in 1..c |-> 0] : c \in 0..MaxCols }

\* The operands of Matrix.concat
ConcatOperands ==
    { AsMatrix(N1Centroids), AsMatrix(N2Centroids),
      MatrixInit(<<"test">>, SubSeq(PcNames, 1, 2), NdArray(1, 2, <<<<3, 4>>>>)),
      MatrixInit(<<>>, <<>>, NdArray(0, 0, <<>>)) }

\* The points handed to CentroidsModel.distances
PointChoices ==
    UNION { { MatrixInit(lbls, SubSeq(PcNames, 1, 2), NdArray(n, 2, data)) :
                lbls \in SeqsOfLen(Labels, n),
                data \in [1..n -> [1..2 -> CountValues]] } :
            n \in 1..MaxRows }

InitMatrix ==
    /\ pc = "start"
    /\ operation = NoResult
    /\ built = NoResult
    /\ required_cols = <<>>
    /\ CountIdle /\ MultiIdle /\ RcdIdle /\ ModelIdle /\ SerialIdle /\ ParseIdle
    /\ SweepIdle /\ SplitIdle
    /\ TrainIdle /\ PipeIdle /\ DlIdle

MatrixUnchanged ==
    UNCHANGED <<countVars, multiVars, rcdVars, modelVars, serialVars, parseVars,
                sweepVars, splitVars, trainVars, pipeVars, dlVars>>

\* Matrix(rows, columns, arr)
Construct ==
    /\ pc = "start"
    /\ \E rows \in SeqsUpTo(Labels, MaxRows), columns \in SeqsUpTo(KnownHmms, MaxCols),
          arr \in ZeroArrays :
          /\ operation' = [kind |-> "Matrix", rows |-> rows, columns |-> columns,
                           arr |-> arr]
          /\ built' = MatrixInit(rows, columns, arr)
    /\ pc' = "built"
    /\ MatrixUnchanged

\* Matrix.from_row(row, columns, arr)
FromRow ==
    /\ pc = "start"
    /\ \E row \in Labels, columns \in SeqsUpTo(KnownHmms, MaxCols), arr \in ZeroVectors :
          /\ operation' = [kind |-> "from_row", row |-> row, columns |-> columns,
                           arr |-> arr]
          /\ built' = from_row(row, columns, arr)
    /\ pc' = "built"
    /\ MatrixUnchanged

\* Matrix.concat(dfs)
ConcatMatrices ==
    /\ pc = "start"
    /\ \E dfs \in SeqsUpTo(ConcatOperands, MaxSamples) :
          /\ operation' = [kind |-> "concat", dfs |-> dfs]
          /\ \E p \in {PutAll(<<>>, dfs)} :
                built' = Returned(matrix_concat(p.heap, p.objs))
    /\ pc' = "built"
    /\ MatrixUnchanged

\* Matrix.from_dict_of_arrays(doa)
FromDictOfArrays ==
    /\ pc = "start"
    /\ \E rows \in SeqsUpTo(Labels, MaxRows), columns \in SeqsUpTo(KnownHmms, MaxCols),
          arr \in ZeroArrays :
          /\ operation' = [kind |-> "from_dict_of_arrays", rows |-> rows,
                           columns |-> columns, arr |-> arr]
          /\ built' = matrix_from_dict_of_arrays(
                          << <<"arr", arr>>, <<"rows", StrArray(rows, U60)>>,
                             <<"columns", StrArray(columns, U60)>> >>, "")
    /\ pc' = "built"
    /\ MatrixUnchanged

\* cazy_counts_multi(handles, labels, required_cols)
CountsMulti ==
    /\ pc = "start"
    /\ \E hs \in SeqsUpTo(SampleChoices, MaxSamples), lbls \in SeqsUpTo(Labels, MaxSamples),
          cols \in SeqsUpTo(KnownHmms, MaxCols) :
          /\ operation' = [kind |-> "cazy_counts_multi", handles |-> hs,
                           labels |-> lbls, required_cols |-> cols]
          /\ built' = cazy_counts_multi(hs, lbls, cols)
    /\ pc' = "built"
    /\ MatrixUnchanged

\* PCAModel(means, components).transform(counts)
Transform ==
    /\ pc = "start"
    /\ \E cnt \in CountsChoices, means \in MeansChoices :
          /\ operation' = [kind |-> "transform", counts |-> cnt, means |-> means]
          /\ \E c \in {PutMatrix(<<means, ComponentsArr>>, cnt)} :
                built' = Returned(transform(c.heap, [means |-> 1, components |-> 2],
                                            c.obj))
    /\ pc' = "built"
    /\ MatrixUnchanged

\* centroids.distances(points)
Distances ==
    /\ pc = "start"
    /\ \E cen \in {N1Centroids, N2Centroids, N3Centroids}, points \in PointChoices :
          /\ operation' = [kind |-> "distances", centroids |-> cen, points |-> points]
          /\ \E p \in {PutAll(<<>>, <<cen, points>>)} :
                built' = Returned(distances(p.heap, p.objs[1], p.objs[2]))
    /\ pc' = "built"
    /\ MatrixUnchanged

\* CentroidsModel._rcd(dists)
RcdOf ==
    /\ pc = "start"
    /\ \E d \in DistMatrices :
          /\ operation' = [kind |-> "_rcd", dists |-> d]
          /\ built' = rcd(d)
    /\ pc' = "built"
    /\ MatrixUnchanged

NextMatrix ==
    \/ Construct \/ FromRow \/ ConcatMatrices \/ FromDictOfArrays
    \/ CountsMulti \/ Transform \/ Distances \/ RcdOf

SpecMatrix == InitMatrix /\ [][NextMatrix]_vars

\* arr.shape is (nrow, ncol) and the cells fill it
ShapeOf(arr) ==
    /\ Len(arr.data) = arr.nrow
    /\ \A i \in DOMAIN arr.data : Len(arr.data[i]) = arr.ncol

\* C19: every Matrix that exists has len(rows) = arr.shape[0] and
\* len(columns) = arr.shape[1]: a construction with mismatching lengths
\* fails, and from_row, concat (of an empty list too), from_dict_of_arrays,
\* cazy_counts_multi, PCAModel.transform, CentroidsModel.distances and
\* CentroidsModel._rcd each fail or yield a Matrix that satisfies it.
C19_MatrixShapeInvariant ==
    pc = "built" =>
        /\ built.kind = "Matrix" =>
              /\ ShapeOf(built.arr)
              /\ Len(built.rows) = built.arr.nrow
              /\ Len(built.columns) = built.arr.ncol
        /\ (/\ operation.kind \in {"Matrix", "from_dict_of_arrays"}
            /\ \/ Len(operation.rows) # operation.arr.nrow
               \/ Len(operation.columns) # operation.arr.ncol) =>
              built.kind = "AssertionError"

\* C19 witness: Matrix.concat of an empty list has built the empty Matrix.
C19_Witness ==
    /\ pc = "built"
    /\ operation.kind = "concat" /\ operation.dfs = <<>>
    /\ built.kind = "Matrix" /\ built.rows = <<>> /\ built.arr.nrow = 0

-----------------------------------------------------------------------------
(* Claims about what HMMER.from_file yields *)

\* The winners of the sweep for one query, before the significance filter
SweepWinners(query, hmm_lens) ==
    distinct_matches(SortMatches(
        [i \in DOMAIN KeptHsps(query) |->
            get_hsp(query, KeptHsps(query)[i][1], KeptHsps(query)[i][2], hmm_lens)]))

\* coverage > 0.3, and evalue < 1e-5 over 80 aligned residues, else < 1e-3
StrictlyCovered(match) ==
    /\ 10 * (match.hmm_to - match.hmm_from) > 3 * match.hmm_len
    /\ IF match.ali_to - match.ali_from > 80
       THEN match.evalue_exp > 5 ELSE match.evalue_exp > 3

\* C21: _filter_significant accepts a winner if and only if coverage > 0.3
\* and (evalue < 1e-5 when ali_to - ali_from > 80, else evalue < 1e-3), a
\* coverage of exactly 0.3 being rejected, and HMMER.from_file yields exactly
\* the sweep winners that pass.
C21_YieldsStrictlyCoveredWinners ==
    (pc = "parsed" /\ file.format # "dbcan" /\ parsed.kind = "matches") =>
        parsed.matches
            = ConcatSeqs([i \in DOMAIN file.queries |->
                  SelectSeq(SweepWinners(file.queries[i], HmmLengthsItems),
                            StrictlyCovered)])

\* The ways to cut a sequence of n records into one block per query: cut[i]
\* is the number of records of the first i queries
Cuts(nq, n) ==
    { cut \in [0..nq -> 0..n] :
        /\ cut[0] = 0 /\ cut[nq] = n
        /\ \A i \in 1..nq : cut[i - 1] <= cut[i] }

\* C22: the records HMMER.from_file yields come query by query in the order
\* of the queries, each record carries the seqid of its own query, and the
\* records of one query are in non-decreasing (ali_from, ali_to) order.
C22_YieldedInQueryOrder ==
    (pc = "parsed" /\ file.format # "dbcan" /\ parsed.kind = "matches") =>
        \E cut \in Cuts(Len(file.queries), Len(parsed.matches)) :
            \A i \in DOMAIN file.queries :
                /\ \A k \in (cut[i - 1] + 1)..cut[i] :
                      parsed.matches[k].seqid = file.queries[i].id
                /\ \A k \in (cut[i - 1] + 1)..(cut[i] - 1) :
                      SortKeyLeq(parsed.matches[k], parsed.matches[k + 1])

\* C22 witness: a first query with one record, then a query with two.
C22_Witness ==
    /\ pc = "parsed" /\ file.format # "dbcan" /\ parsed.kind = "matches"
    /\ Len(file.queries) = 2 /\ Len(parsed.matches) = 3
    /\ parsed.matches[1].seqid = "seq1"
    /\ parsed.matches[2].seqid = "seq2" /\ parsed.matches[3].seqid = "seq2"
    /\ parsed.matches[2].ali_from < parsed.matches[3].ali_from


(* SpecTrain: an HMM file is read at training, the Model is fitted, written *)
(* and read back, and the runner takes its columns from the Model read     *)

MaxHmms == 3

\* The code point of a character (str ordering compares code points)
ord(c) ==
    CASE c = "1" -> 49 [] c = "3" -> 51 [] c = "A" -> 65 [] c = "B" -> 66
      [] c = "C" -> 67 [] c = "G" -> 71 [] c = "H" -> 72 [] c = "M" -> 77

RECURSIVE StrLess(_, _)
\* a < b on str
StrLess(a, b) ==
    IF b = "" THEN FALSE
    ELSE IF a = "" THEN TRUE
    ELSE IF SubSeq(a, 1, 1) = SubSeq(b, 1, 1)
         THEN StrLess(SubSeq(a, 2, Len(a)), SubSeq(b, 2, Len(b)))
    ELSE ord(SubSeq(a, 1, 1)) < ord(SubSeq(b, 1, 1))

RECURSIVE InsertByName(_, _)
InsertByName(t, s) ==
    IF s = <<>> THEN <<t>>
    ELSE IF StrLess(Head(s)[1], t[1]) THEN <<Head(s)>> \o InsertByName(t, Tail(s))
    ELSE <<t>> \o s
RECURSIVE SortByName(_)
\* output.sort(key=lambda t: t[0]) (stable)
SortByName(output) ==
    IF output = <<>> THEN <<>> ELSE InsertByName(Head(output), SortByName(Tail(output)))

\* sorted(d.keys())
sorted_keys(d) == DictKeys(SortByName(d))

\* HMMLengths.read_hmm: one (split_hmm(NAME), int(LENG)) pair per profile,
\* sorted by name, as an ordered dict
read_hmm(profiles) ==
    DictUpdate(<<>>, SortByName([i \in DOMAIN profiles |->
                         <<split_hmm(profiles[i].name), profiles[i].leng>>]))

\* Profile names: two short ones, a second spelling of one of them, one that
\* fills 'U60' exactly, and two longer ones that agree on 60 characters.
ProfileNames ==
    {"GH3.hmm", "CBM1.hmm", "GH3.phmm", Repeat("A", U60) \o ".hmm",
     Repeat("A", U60) \o "B.hmm", Repeat("A", U60) \o "C.hmm"}
ProfileLengths == {10, 20}
Profiles == [name : ProfileNames, leng : ProfileLengths]

RECURSIVE HmmFiles(_)
HmmFiles(n) ==
    IF n = 0 THEN {<<>>}
    ELSE HmmFiles(n - 1) \cup
         {Append(f, p) : f \in {g \in HmmFiles(n - 1) : Len(g) = n - 1}, p \in Profiles}

InitTrain ==
    /\ pc = "start"
    /\ inhmms \in HmmFiles(MaxHmms)
    /\ trained = NoResult /\ reread = NoResult
    /\ required_cols = <<>>
    /\ CountIdle /\ MultiIdle /\ RcdIdle /\ ModelIdle /\ SerialIdle /\ ParseIdle
    /\ SweepIdle /\ SplitIdle /\ MatrixIdle /\ PipeIdle /\ DlIdle

\* train runner: hmm_lengths = HMMLengths.read_hmm(inhmms);
\* required_cols = sorted(hmm_lengths.keys()); the counts have these columns
\* and PCA.fit leaves one mean per column of the counts
TrainRunner ==
    /\ pc = "start"
    /\ \E hl \in {read_hmm(inhmms)} :
          trained' = [kind |-> "model",
                      hmm_lengths |-> hl,
                      required_cols |-> sorted_keys(hl),
                      means |-> [j \in DOMAIN sorted_keys(hl) |-> 0]]
    /\ pc' = "trained"
    /\ UNCHANGED <<inhmms, reread, countVars, multiVars, rcdVars, modelVars, serialVars,
                   parseVars, sweepVars, splitVars, matrixVars, pipeVars, dlVars>>

\* Model.write: the hmm_lengths array and the means go into the container
WriteTrained ==
    /\ pc = "trained"
    /\ reread' = [kind |-> "npz",
                  hmm_lengths |-> hmm_lengths_to_array(trained.hmm_lengths),
                  means |-> trained.means]
    /\ pc' = "written"
    /\ UNCHANGED <<inhmms, trained, countVars, multiVars, rcdVars, modelVars, serialVars,
                   parseVars, sweepVars, splitVars, matrixVars, pipeVars, dlVars>>

\* Model.read, then runner: required_cols = list(model.hmm_lengths.keys())
ReadTrained ==
    /\ pc = "written"
    /\ \E hl \in {hmm_lengths_from_array(reread.hmm_lengths)} :
          reread' = [kind |-> "model",
                     hmm_lengths |-> hl,
                     required_cols |-> DictKeys(hl),
                     means |-> reread.means]
    /\ pc' = "reread"
    /\ UNCHANGED <<inhmms, trained, countVars, multiVars, rcdVars, modelVars, serialVars,
                   parseVars, sweepVars, splitVars, matrixVars, pipeVars, dlVars>>

NextTrain == TrainRunner \/ WriteTrained \/ ReadTrained

SpecTrain == InitTrain /\ [][NextTrain]_vars

\* C23: the columns the inference runner counts are sorted(hmm_lengths.keys())
\* of the Model read, are the columns the PCA was fitted on at training, and
\* are as many as pca_model.means has entries.
C23_ColumnsAsTrained ==
    (pc = "reread") =>
        /\ reread.required_cols = sorted_keys(reread.hmm_lengths)
        /\ reread.required_cols = trained.required_cols
        /\ Len(reread.required_cols) = Len(reread.means)


\* The candidates of one query, as handed to _distinct_matches
Candidates(query, hmm_lens) ==
    SortMatches([i \in DOMAIN KeptHsps(query) |->
                    get_hsp(query, KeptHsps(query)[i][1], KeptHsps(query)[i][2], hmm_lens)])

RECURSIVE Divisors(_, _)
\* The divisors of dist / winner_ali_length and dist / match_ali_length, for
\* every match the loop of _distinct_matches examines after the first
Divisors(winner, ms) ==
    IF ms = <<>> THEN {}
    ELSE {winner.ali_to - winner.ali_from, Head(ms).ali_to - Head(ms).ali_from}
         \cup Divisors(IF 2 * (winner.ali_to - Head(ms).ali_from) > 0
                          /\ (\/ 2 * (winner.ali_to - Head(ms).ali_from)
                                   > winner.ali_to - winner.ali_from
                              \/ 2 * (winner.ali_to - Head(ms).ali_from)
                                   > Head(ms).ali_to - Head(ms).ali_from)
                          /\ ~lower_evalue(Head(ms), winner)
                       THEN winner ELSE Head(ms),
                       Tail(ms))

\* The queries of the file whose sweep runs: every kept hit has a known family
Swept(f) ==
    { i \in DOMAIN f.queries : QueryRows(f.queries[i], HmmLengthsItems).kind = "rows" }

\* C24: inside from_file every candidate handed to _distinct_matches has a
\* positive alignment span, and no division of the sweep has divisor zero.
C24_NoZeroSpanInSweep ==
    (pc = "parsed" /\ file.format # "dbcan") =>
        \A i \in Swept(file) :
            /\ \A k \in DOMAIN Candidates(file.queries[i], HmmLengthsItems) :
                  Candidates(file.queries[i], HmmLengthsItems)[k].ali_to
                    - Candidates(file.queries[i], HmmLengthsItems)[k].ali_from > 0
            /\ Candidates(file.queries[i], HmmLengthsItems) # <<>> =>
                  0 \notin Divisors(Head(Candidates(file.queries[i], HmmLengthsItems)),
                                    Tail(Candidates(file.queries[i], HmmLengthsItems)))

\* A file was parsed in which a query has a zero-span HSP, a negative-span
\* HSP and a kept one, and whose sweep compared two candidates.
C24_Witness ==
    /\ pc = "parsed" /\ file.format # "dbcan" /\ parsed.kind = "matches"
    /\ \E i \in Swept(file) :
          /\ \E k \in DOMAIN HitHsps(file.queries[i].hits) :
                HitHsps(file.queries[i].hits)[k][2].query_end
                  = HitHsps(file.queries[i].hits)[k][2].query_start
          /\ \E k \in DOMAIN HitHsps(file.queries[i].hits) :
                HitHsps(file.queries[i].hits)[k][2].query_end
                  < HitHsps(file.queries[i].hits)[k][2].query_start
          /\ Len(Candidates(file.queries[i], HmmLengthsItems)) = 1
    /\ \E j \in Swept(file) :
          Len(Candidates(file.queries[j], HmmLengthsItems)) >= 2


\* The loop of _distinct_matches followed by position: after match k is
\* examined, first is where the current alignment group starts, winner is
\* the position of its current winner.
SweepTrace(ms) ==
    LET tr[k \in 1..Len(ms)] ==
            IF k = 1 THEN [first |-> 1, winner |-> 1]
            ELSE IF /\ ms[tr[k - 1].winner].ali_to - ms[k].ali_from > 0
                    /\ \/ 2 * (ms[tr[k - 1].winner].ali_to - ms[k].ali_from)
                            > ms[tr[k - 1].winner].ali_to - ms[tr[k - 1].winner].ali_from
                       \/ 2 * (ms[tr[k - 1].winner].ali_to - ms[k].ali_from)
                            > ms[k].ali_to - ms[k].ali_from
                 THEN [first |-> tr[k - 1].first,
                       winner |-> IF lower_evalue(ms[k], ms[tr[k - 1].winner])
                                  THEN k ELSE tr[k - 1].winner]
                 ELSE [first |-> k, winner |-> k]
    IN  tr

\* The position of the winner committed for the group of position i: the
\* next record appended to winners after match i was examined
Committed(ms, i) ==
    SweepTrace(ms)[CHOOSE k \in i..Len(ms) :
                      /\ SweepTrace(ms)[k].first = SweepTrace(ms)[i].first
                      /\ (k = Len(ms) \/ SweepTrace(ms)[k + 1].first # SweepTrace(ms)[i].first)
                  ].winner

\* C25: what _distinct_matches returns is a subsequence of what it was given,
\* is empty exactly when the input is empty, and every input record left out
\* has an e-value no lower than that of the winner committed for its group.
C25_SweepKeepsGroupMinimum ==
    (pc \in {"swept", "swept again"}) =>
        /\ \E at \in [DOMAIN query_winners -> DOMAIN query_matches] :
              /\ \A k \in DOMAIN query_winners : query_winners[k] = query_matches[at[k]]
              /\ \A k \in DOMAIN query_winners : k > 1 => at[k - 1] < at[k]
              /\ \A k \in DOMAIN query_winners : Committed(query_matches, at[k]) = at[k]
              /\ \A i \in DOMAIN query_matches :
                    (\A k \in DOMAIN query_winners : at[k] # i) =>
                        /\ \E k \in DOMAIN query_winners :
                              at[k] = Committed(query_matches, i)
                        /\ query_matches[i].evalue_exp
                             <= query_matches[Committed(query_matches, i)].evalue_exp
        /\ (query_winners = <<>>) <=> (query_matches = <<>>)

\* A sweep of three candidates of one group: the second has a lower e-value
\* than the first and replaces it, the third has a higher one and is dropped.
C25_Witness ==
    /\ pc = "swept" /\ Len(query_matches) = 3 /\ Len(query_winners) = 1
    /\ query_winners[1] = query_matches[2]
    /\ query_matches[1].evalue_exp < query_matches[2].evalue_exp
    /\ query_matches[3].evalue_exp < query_matches[2].evalue_exp


\* The hits of the file whose family, after the suffix is stripped, is not in
\* hmm_lens: all of them, and those with an HSP that from_file keeps
UnknownHits(f) ==
    UNION { { <<i, j>> : j \in { k \in DOMAIN f.queries[i].hits :
                ~HasHmm(HmmLengthsItems, split_hmm(f.queries[i].hits[k].id)) } } :
            i \in DOMAIN f.queries }
KeptUnknownHits(f) ==
    { h \in UnknownHits(f) :
         \E k \in DOMAIN f.queries[h[1]].hits[h[2]].hsps :
             f.queries[h[1]].hits[h[2]].hsps[k].query_end
               - f.queries[h[1]].hits[h[2]].hsps[k].query_start > 0 }

\* C26 as stated: for HMMER-format input a hit of a family absent from
\* hmm_lens makes from_file raise ParseError with line None, and cazy_counts
\* with the keys of hmm_lens as required_cols never raises HMMError.
C26_UnknownFamilyRaises ==
    (pc \in {"parsed", "counted"} /\ file.format # "dbcan") =>
        /\ UnknownHits(file) # {} =>
              parsed = ParseError(file.name, NoLine, "a different version of DBCAN")
        /\ pc = "counted" => count_result.kind # "HMMError"

\* C26, amended: the ParseError is raised exactly when such a hit has an HSP
\* of positive alignment span; a hit whose HSPs are all dropped raises
\* nothing. cazy_counts never raises HMMError either way.
C26_KeptUnknownFamilyRaises ==
    (pc \in {"parsed", "counted"} /\ file.format # "dbcan") =>
        /\ KeptUnknownHits(file) # {} <=>
              parsed = ParseError(file.name, NoLine, "a different version of DBCAN")
        /\ pc = "counted" => count_result.kind = "row"

\* A file of two queries: the first yields a match, the second has a hit of
\* an unknown family, and the parse ended in the ParseError.
C26_Witness ==
    /\ pc = "parsed" /\ file.format # "dbcan" /\ Len(file.queries) = 2
    /\ QueryRows(file.queries[1], HmmLengthsItems).kind = "rows"
    /\ QueryRows(file.queries[1], HmmLengthsItems).rows # <<>>
    /\ KeptUnknownHits(file) = {<<2, 1>>}
    /\ parsed = ParseError(file.name, NoLine, "a different version of DBCAN")


(* SpecPipeline: the pipeline runner searches its inputs with parallel      *)
(* worker threads, run after run over the same output directory            *)

MaxInputs == 2
MaxRuns == 2

\* os.path.basename
basename(path) ==
    IF \E i \in 1..Len(path) : SubSeq(path, i, i) = "/"
    THEN SubSeq(path,
                1 + (CHOOSE i \in 1..Len(path) :
                        /\ SubSeq(path, i, i) = "/"
                        /\ \A j \in (i + 1)..Len(path) : SubSeq(path, j, j) # "/"),
                Len(path))
    ELSE path

\* os.path.splitext(name)[0], for a name without directories
splitext_root(name) ==
    IF \E i \in 2..Len(name) : SubSeq(name, i, i) = "."
    THEN SubSeq(name, 1,
                (CHOOSE i \in 2..Len(name) :
                    /\ SubSeq(name, i, i) = "."
                    /\ \A j \in (i + 1)..Len(name) : SubSeq(name, j, j) # ".") - 1)
    ELSE name

\* bname, domtab and txt of parallel_runner; the output directory is "out"
bname(f) == "out/search/" \o splitext_root(basename(f))
domtab_path(f) == bname(f) \o "_domtab.tsv"
txt_path(f) == bname(f) \o "_hmmer.txt"
\* labels = [basename(f[:-len("_domtab.tsv")]) for f in domtabs]
label_of(domtab) == basename(SubSeq(domtab, 1, Len(domtab) - Len("_domtab.tsv")))

InputChoices == {"a/x.fasta", "b/x.fasta", "a/y.fasta"}
SearchPaths ==
    {domtab_path(f) : f \in InputChoices} \cup {txt_path(f) : f \in InputChoices}

NoFile == [kind |-> "absent"]
\* A file under out/search: who wrote it (input and run), and for a domtab
\* whether hmmscan finished it, for a text file its size and whether the
\* hmmscan whose stdout it holds exited with status 0
DomtabFile(f, r, complete) ==
    [kind |-> "domtab", by |-> f, run |-> r, complete |-> complete]
TxtFile(f, r, size, ok) ==
    [kind |-> "txt", by |-> f, run |-> r, size |-> size, ok |-> ok]

Thread(f) ==
    [pc |-> "start", f |-> f, domtab |-> "", txt |-> "",
     stdout |-> 0, returncode |-> 0, report |-> "", saw |-> NoFile]

InitPipeline ==
    /\ pc = "start"
    /\ infiles \in { s \in SeqsUpTo(InputChoices, MaxInputs) :
                        /\ s # <<>>
                        /\ \A i, j \in DOMAIN s : i # j => s[i] # s[j] }
    /\ fs = [p \in SearchPaths |-> NoFile]
    /\ worker = [i \in DOMAIN infiles |-> Thread(infiles[i])]
    /\ run = 1
    /\ required_cols = <<>>
    /\ CountIdle /\ MultiIdle /\ RcdIdle /\ ModelIdle /\ SerialIdle /\ ParseIdle
    /\ SweepIdle /\ SplitIdle /\ MatrixIdle /\ TrainIdle /\ DlIdle

PipelineUnchanged ==
    UNCHANGED <<pc, infiles, countVars, multiVars, rcdVars, modelVars, serialVars,
                parseVars, sweepVars, splitVars, matrixVars, trainVars, dlVars>>

\* parallel_runner: bname, domtab, txt;
\* if isfile(txt) and (getsize(txt) > 0): CACHED, return domtab
CheckCached(i) ==
    /\ worker[i].pc = "start"
    /\ worker' = [worker EXCEPT ![i] =
          IF fs[txt_path(worker[i].f)].kind = "txt" /\ fs[txt_path(worker[i].f)].size > 0
          THEN [@ EXCEPT !.pc = "done", !.report = "CACHED", !.saw = fs[txt_path(worker[i].f)],
                         !.domtab = domtab_path(worker[i].f), !.txt = txt_path(worker[i].f)]
          ELSE [@ EXCEPT !.pc = "call",
                         !.domtab = domtab_path(worker[i].f), !.txt = txt_path(worker[i].f)]]
    /\ UNCHANGED <<fs, run>>
    /\ PipelineUnchanged

\* call_hmmscan: Popen([cmd, "--domtblout", domtab, db, infile]); hmmscan
\* opens the domtab file for writing
Popen(i) ==
    /\ worker[i].pc = "call"
    /\ fs' = [fs EXCEPT ![worker[i].domtab] = DomtabFile(worker[i].f, run, FALSE)]
    /\ worker' = [worker EXCEPT ![i].pc = "scanning"]
    /\ UNCHANGED run
    /\ PipelineUnchanged

\* call.communicate(): hmmscan exits. With status 0 it has written all of
\* the domtab file and its report on stdout; it can fail or be killed before
\* or after it wrote anything on stdout. The status is not looked at.
Communicate(i) ==
    /\ worker[i].pc = "scanning"
    /\ \E returncode \in {0, 1} :
       \E stdout \in (IF returncode = 0 THEN {1} ELSE {0, 1}) :
          /\ worker' = [worker EXCEPT ![i].pc = "exited", ![i].stdout = stdout,
                                      ![i].returncode = returncode]
          /\ fs' = IF returncode = 0
                   THEN [fs EXCEPT ![worker[i].domtab] =
                            DomtabFile(worker[i].f, run,
                                       fs[worker[i].domtab].by = worker[i].f
                                       /\ fs[worker[i].domtab].run = run)]
                   ELSE fs
    /\ UNCHANGED run
    /\ PipelineUnchanged

\* with open(hmmer, "wb") as handle
OpenTxt(i) ==
    /\ worker[i].pc = "exited"
    /\ fs' = [fs EXCEPT ![worker[i].txt] =
                 TxtFile(worker[i].f, run, 0, worker[i].returncode = 0)]
    /\ worker' = [worker EXCEPT ![i].pc = "opened"]
    /\ UNCHANGED run
    /\ PipelineUnchanged

\* handle.write(stdout); COMPLETED, return domtab
WriteTxt(i) ==
    /\ worker[i].pc = "opened"
    /\ fs' = [fs EXCEPT ![worker[i].txt] =
                 TxtFile(worker[i].f, run, worker[i].stdout, worker[i].returncode = 0)]
    /\ worker' = [worker EXCEPT ![i].pc = "done", ![i].report = "COMPLETED"]
    /\ UNCHANGED run
    /\ PipelineUnchanged

\* The run is interrupted: its threads stop where they are
Interrupt ==
    /\ \E i \in DOMAIN worker : worker[i].pc \notin {"done", "killed"}
    /\ worker' = [i \in DOMAIN worker |->
                    IF worker[i].pc = "done" THEN worker[i]
                    ELSE [worker[i] EXCEPT !.pc = "killed"]]
    /\ UNCHANGED <<fs, run>>
    /\ PipelineUnchanged

\* The pipeline is run again on the same inputs and output directory
RunAgain ==
    /\ \A i \in DOMAIN worker : worker[i].pc \in {"done", "killed"}
    /\ run < MaxRuns
    /\ run' = run + 1
    /\ worker' = [i \in DOMAIN infiles |-> Thread(infiles[i])]
    /\ UNCHANGED fs
    /\ PipelineUnchanged

NextPipeline ==
    \/ \E i \in DOMAIN worker :
          CheckCached(i) \/ Popen(i) \/ Communicate(i) \/ OpenTxt(i) \/ WriteTxt(i)
    \/ Interrupt
    \/ RunAgain

SpecPipeline == InitPipeline /\ [][NextPipeline]_vars

\* C27: two distinct inputs of one run have distinct domtab paths, text
\* paths and labels; no file under out/search is held by one input while
\* another input of the run works on it, and no input is reported CACHED
\* because of a text file another input wrote in the same run.
C27_DistinctInputsDistinctOutputs ==
    (run >= 1) =>
        /\ \A i, j \in DOMAIN worker :
              (i # j /\ worker[i].domtab # "" /\ worker[j].domtab # "") =>
                  /\ worker[i].domtab # worker[j].domtab
                  /\ worker[i].txt # worker[j].txt
                  /\ label_of(worker[i].domtab) # label_of(worker[j].domtab)
        /\ \A i \in DOMAIN worker :
              worker[i].pc \in {"scanning", "exited", "opened"} =>
                  /\ fs[worker[i].domtab].by = worker[i].f
                  /\ worker[i].pc = "opened" => fs[worker[i].txt].by = worker[i].f
        /\ \A i \in DOMAIN worker :
              worker[i].report = "CACHED" =>
                  ~(worker[i].saw.run = run /\ worker[i].saw.by # worker[i].f)


\* No two inputs of the run share a file-name stem
DistinctStems ==
    \A i, j \in DOMAIN infiles :
        i # j => splitext_root(basename(infiles[i])) # splitext_root(basename(infiles[j]))

\* C29: an input is reported CACHED only when an earlier hmmscan run for it
\* exited successfully and its domtab file is complete; the text file of an
\* input is not written while its hmmscan is still to start or running.
C29_CachedOnlyAfterSuccess ==
    (run >= 1 /\ DistinctStems) =>
        /\ \A i \in DOMAIN worker :
              worker[i].report = "CACHED" =>
                  /\ worker[i].saw.ok
                  /\ fs[worker[i].domtab].kind = "domtab"
                  /\ fs[worker[i].domtab].complete
        /\ \A i \in DOMAIN worker :
              worker[i].pc \in {"call", "scanning"} =>
                  ~(fs[worker[i].txt].kind = "txt" /\ fs[worker[i].txt].run = run)


(* SpecDownload: download_dbcan is called, again and again, on one output   *)
(* directory                                                               *)

MaxChunks == 2
MaxCalls == 3

Versions == {"v4", "v5", "v6", "v7", "v8", "v9", "v10"}
DBCAN_URLS(version) ==
    CASE version = "v4" ->
           "http://bcb.unl.edu/dbCAN2/download/Databases/dbCAN-old@UGA/dbCAN-fam-HMMs.txt.v4"
      [] version = "v5" ->
           "http://bcb.unl.edu/dbCAN2/download/Databases/dbCAN-old@UGA/dbCAN-fam-HMMs.txt.v5"
      [] version = "v6" -> "http://bcb.unl.edu/dbCAN2/download/Databases/dbCAN-HMMdb-V6.txt"
      [] version = "v7" -> "http://bcb.unl.edu/dbCAN2/download/Databases/dbCAN-HMMdb-V7.txt"
      [] version = "v8" -> "http://bcb.unl.edu/dbCAN2/download/Databases/dbCAN-HMMdb-V8.txt"
      [] version = "v9" -> "https://bcb.unl.edu/dbCAN2/download/dbCAN-HMMdb-V9.txt"
      [] version = "v10" -> "https://bcb.unl.edu/dbCAN2/download/dbCAN-HMMdb-V10.txt"

\* pjoin(outdir, "downloads", basename(urlparse(url).path)); the basename of
\* the path is the text after the last "/" of these URLs
url_fname(version) == "out/downloads/" \o basename(DBCAN_URLS(version))

\* downloads: "absent", "partial" (opened, not all chunks written) or
\* "complete". dbcan: the version asked for, the chunks still to write,
\* whether download_file raised in this call, and the number of the call.
InitDownload ==
    /\ pc = "start"
    /\ downloads = "absent"
    /\ \E version \in Versions :
          dbcan = [version |-> version, path |-> "", chunks |-> 0,
                   failed |-> FALSE, calls |-> 1]
    /\ required_cols = <<>>
    /\ CountIdle /\ MultiIdle /\ RcdIdle /\ ModelIdle /\ SerialIdle /\ ParseIdle
    /\ SweepIdle /\ SplitIdle /\ MatrixIdle /\ TrainIdle /\ PipeIdle

DownloadUnchanged ==
    UNCHANGED <<countVars, multiVars, rcdVars, modelVars, serialVars, parseVars,
                sweepVars, splitVars, matrixVars, trainVars, pipeVars>>

\* download_dbcan up to the test: if not os.path.exists(url_fname)
CheckExists ==
    /\ pc = "start"
    /\ dbcan' = [dbcan EXCEPT !.path = url_fname(dbcan.version)]
    /\ pc' = IF downloads # "absent" THEN "returned" ELSE "get"
    /\ UNCHANGED downloads
    /\ DownloadUnchanged

\* download_file: requests.get(url); response.raise_for_status(). When
\* either raises, the handler of download_dbcan finds no file at url_fname,
\* so it neither removes anything nor raises, and url_fname is returned.
Get ==
    /\ pc = "get"
    /\ \E outcome \in {"ok", "ConnectionError", "HTTPError"} :
          IF outcome = "ok"
          THEN /\ pc' = "open"
               /\ UNCHANGED dbcan
          ELSE /\ dbcan' = [dbcan EXCEPT !.failed = TRUE]
               /\ pc' = IF downloads # "absent" THEN "raised" ELSE "returned"
    /\ UNCHANGED downloads
    /\ DownloadUnchanged

\* with open(destination, "wb") as handle: the file exists, empty
OpenDestination ==
    /\ pc = "open"
    /\ downloads' = "partial"
    /\ \E n \in 1..MaxChunks : dbcan' = [dbcan EXCEPT !.chunks = n]
    /\ pc' = "write"
    /\ DownloadUnchanged

\* handle.write(chunk), and the return after the last chunk; a write that
\* raises (OSError) reaches the handler, which removes the file and raises
WriteChunk ==
    /\ pc = "write"
    /\ \/ /\ dbcan' = [dbcan EXCEPT !.chunks = @ - 1]
          /\ downloads' = IF dbcan.chunks = 1 THEN "complete" ELSE "partial"
          /\ pc' = IF dbcan.chunks = 1 THEN "returned" ELSE "write"
       \/ /\ dbcan' = [dbcan EXCEPT !.failed = TRUE]
          /\ downloads' = "absent"
          /\ pc' = "raised"
    /\ DownloadUnchanged

\* KeyboardInterrupt during download_file: not an Exception, so the handler
\* does not run and the file stays as it is
InterruptDownload ==
    /\ pc \in {"get", "open", "write"}
    /\ pc' = "interrupted"
    /\ UNCHANGED <<downloads, dbcan>>
    /\ DownloadUnchanged

\* download_dbcan is called again on the same output directory
CallAgain ==
    /\ pc \in {"returned", "raised", "interrupted"}
    /\ dbcan.calls < MaxCalls
    /\ dbcan' = [dbcan EXCEPT !.calls = @ + 1, !.failed = FALSE, !.chunks = 0,
                              !.path = ""]
    /\ pc' = "start"
    /\ UNCHANGED downloads
    /\ DownloadUnchanged

NextDownload ==
    CheckExists \/ Get \/ OpenDestination \/ WriteChunk \/ InterruptDownload \/ CallAgain

SpecDownload == InitDownload /\ [][NextDownload]_vars

\* C28: when download_file has failed, download_dbcan raises and no file is
\* left at url_fname; download_dbcan returns only when a completely
\* downloaded file is at url_fname.
C28_FailurePropagates ==
    /\ (pc \in {"returned", "raised"} /\ dbcan.failed) =>
          (pc = "raised" /\ downloads = "absent")
    /\ pc = "returned" => downloads = "complete"


-----------------------------------------------------------------------------
(* Claims about the PCA table of the runner *)

\* The results of one nomenclature in a list from_matrix built, and the block
\* of consecutive results it holds for row j of nrows
NomenclatureBlock(results, n) ==
    SelectSeq(results, LAMBDA r : r.nomenclature = NomenclatureNames[n])
RowBlock(results, n, nrows, j) ==
    SubSeq(NomenclatureBlock(results, n),
           (j - 1) * (Len(NomenclatureBlock(results, n)) \div nrows) + 1,
           j * (Len(NomenclatureBlock(results, n)) \div nrows))

\* The results of the sample in row i of the concatenation: the rows of the
\* training data come first, the rows of predictions after them
OwnResults(i, n) ==
    IF i <= Len(heap[model.training_data.pca.rows])
    THEN RowBlock(heap[model.training_data.rcd], n,
                  Len(heap[model.training_data.pca.rows]), i)
    ELSE RowBlock(heap[predictions.rcd], n, Len(heap[predictions.pca.rows]),
                  i - Len(heap[model.training_data.pca.rows]))

ClassesOf(results) == [k \in DOMAIN results |-> results[k].nomenclature_class]

\* C30: in the table written for the concatenation of the training data and
\* the predictions, each row's predicted class per nomenclature has the
\* highest RCD among the results of that row's own sample, and its ancillary
\* list is exactly that sample's classes with RCD >= 0.8, the predicted class
\* among them, whatever labels the user gave the samples.
C30_RowsDescribeOwnSample ==
    (pc = "concatenated" /\ pca_tsv.kind = "table") =>
        \A i \in DOMAIN pca_tsv.rows : \A n \in 1..3 :
            /\ \E k \in DOMAIN OwnResults(i, n) :
                  /\ OwnResults(i, n)[k].nomenclature_class = pca_tsv.rows[i].pred[n]
                  /\ \A m \in DOMAIN OwnResults(i, n) :
                        OwnResults(i, n)[m].value <= OwnResults(i, n)[k].value
                  /\ AtLeastThreshold(OwnResults(i, n)[k].value)
            /\ pca_tsv.rows[i].ancillary[n] =
                  Join(",", ClassesOf(SelectSeq(OwnResults(i, n),
                                                LAMBDA r : AtLeastThreshold(r.value))))

=============================================================================
